---- MODULE Spec2Model ----
(***************************************************************************)
(* A model of the CareerViet job pipeline: the concurrent crawl           *)
(* (src/src/scraper.py) and the batch normaliser                          *)
(* (src/data_processing/cleaning.py).                                     *)
(*                                                                         *)
(* The module holds several specifications over one set of variables:     *)
(*   SpecCrawl    CareerVietScraper.scrape and its worker pool            *)
(*   SpecFetch    CareerVietScraper.get_soup (retry loop)                 *)
(*   SpecClean    JobDataCleaner.clean                                    *)
(*   SpecDetail   CareerVietScraper.get_job_details                       *)
(*   SpecListing  CareerVietScraper.get_jobs_from_page / process_job      *)
(* Each specification leaves the variables of the others untouched.       *)
(***************************************************************************)
EXTENDS Integers, Sequences, FiniteSets, TLC

(***************************************************************************)
(* Bounds of the model.                                                    *)
(***************************************************************************)
MaxPages == 2        \* pages of the search
MaxWorkers == 2      \* worker threads of the pool
MaxListings == 2     \* listings of the site, over all pages
MaxJobs == 2         \* the job target max_jobs
NLinks == 2          \* distinct job links of the site
MaxRetries == 2      \* the retries argument of get_soup
MaxBatch == 2        \* records of a batch given to clean
MaxHits == 2         \* labelled metadata elements of a detail page
MaxItems == 2        \* listing items of a results page
MaxPerPage == 2      \* largest max_jobs_per_page

\* job.get('Job Link', '') : the empty link, never merged
EmptyLink == 0

VARIABLES
    \* ---- scrape ----
    n_pages,              \* len(all_pages)
    max_jobs,             \* self.max_jobs
    max_workers,          \* self.max_workers
    site,                 \* each page: its listings' links, and how its task ends
    fstate,               \* state of each page's future
    runner,               \* page each worker thread is running (0: idle)
    session,              \* thread_local.driver of each thread (0: main)
    yielded,              \* futures as_completed has handed to the loop
    all_jobs,
    processed_job_links,
    cancel_i,             \* position of the cancelling loop
    stopped,              \* the loop was left by break
    at_stop,              \* history: fstate when the job target was reached
    verified_jobs,        \* the returned collection
    pc,                   \* position of the main thread
    \* ---- get_soup ----
    fetch_retries,        \* retries
    fetch_scrolls,        \* scroll_times
    fetch_attempt,        \* attempt, the loop variable
    fetch_pc,             \* position inside the attempt
    fetch_i,              \* scrolls done in this attempt
    fetch_loads,          \* history: driver.get calls made
    fetch_failures,       \* history: attempts that raised
    fetch_waits,          \* history: the back-off sleeps, in seconds
    fetch_result,         \* what get_soup returned
    \* ---- clean ----
    clean_batch,          \* df: the raw records
    clean_lists,          \* the Welfare column holds lists (df from scrape)
    clean_pc,
    clean_result,         \* the cleaned DataFrame, or the exception raised
    \* ---- get_job_details ----
    detail_in,            \* the detail page and what happens while reading it
    detail_pc,
    detail_result,        \* the mapping returned, or the exception raised
    \* ---- get_jobs_from_page ----
    listing_in,           \* the results page and what its fetches give
    max_jobs_per_page,
    listing_pc,
    job_list,             \* the listing items found
    jobs_to_process,
    listing_i,            \* position of the loop in jobs_to_process
    seen_job_ids,
    results,
    results_src,          \* for each record of results, the item it came from
    \* ---- _clean_salary ----
    salary_batch,         \* the raw Salary texts of the batch
    salary_pc,
    salary_result,        \* the Min_Salary and Max_Salary columns
    \* ---- _clean_dates, _convert_expire_date ----
    expiry_today,         \* self.today, as a day number
    expiry_in,            \* the Expire Date cell
    expiry_pc,
    expiry_result,        \* what the cell becomes, or the exception raised
    \* ---- extract_skills ----
    tag_text,             \* the text given to extract_skills
    tag_pc,
    found_skills,         \* the list returned
    \* ---- get_skills_counts ----
    skills_column,        \* df[skills_column]: the skill list of each record
    counts_pc,
    skill_counts,         \* Counter(all_skills).items()
    counts_table,         \* the DataFrame returned
    \* ---- filter_data_jobs ----
    filter_df,            \* the DataFrame handed to filter_data_jobs
    filter_pc,
    filtered_once,        \* filter_data_jobs(df)
    filtered_twice,       \* filter_data_jobs(filter_data_jobs(df))
    \* ---- generate_pagination_urls ----
    search,               \* the search the base URL belongs to, and the page it is on
    base_url,
    max_page,
    pagination_pc,
    base_part,
    page,                 \* the loop variable
    urls                  \* the list built, then returned

crawlVars == <<n_pages, max_jobs, max_workers, site, fstate, runner, session,
               yielded, all_jobs, processed_job_links, cancel_i, stopped,
               at_stop, verified_jobs, pc>>

fetchVars == <<fetch_retries, fetch_scrolls, fetch_attempt, fetch_pc, fetch_i,
               fetch_loads, fetch_failures, fetch_waits, fetch_result>>

cleanVars == <<clean_batch, clean_lists, clean_pc, clean_result>>

detailVars == <<detail_in, detail_pc, detail_result>>

listingVars == <<listing_in, max_jobs_per_page, listing_pc, job_list,
                 jobs_to_process, listing_i, seen_job_ids, results, results_src>>

salaryVars == <<salary_batch, salary_pc, salary_result>>

expiryVars == <<expiry_today, expiry_in, expiry_pc, expiry_result>>

tagVars == <<tag_text, tag_pc, found_skills>>

countsVars == <<skills_column, counts_pc, skill_counts, counts_table>>

filterVars == <<filter_df, filter_pc, filtered_once, filtered_twice>>

paginationVars == <<search, base_url, max_page, pagination_pc, base_part, page, urls>>

vars == <<crawlVars, fetchVars, cleanVars, detailVars, listingVars, salaryVars, expiryVars, tagVars, countsVars, filterVars, paginationVars>>

(***************************************************************************)
(* Helpers                                                                 *)
(***************************************************************************)
Range(s) == {s[i] : i \in DOMAIN s}

Min(a, b) == IF a <= b THEN a ELSE b

SeqsUpTo(S, n) == UNION {[1..k -> S] : k \in 0..n}

RECURSIVE FilterSeq(_, _)
\* the subsequence of s of the elements in the set keep
FilterSeq(s, keep) ==
    IF s = <<>> THEN <<>>
    ELSE IF Head(s) \in keep THEN <<Head(s)>> \o FilterSeq(Tail(s), keep)
    ELSE FilterSeq(Tail(s), keep)

\* A string is kept as where it came from, its length and the number of
\* its ASCII letters: the program looks at nothing else of a text.
Text(src, len, alpha) == [src |-> src, len |-> len, alpha |-> alpha]

\* Python's None
PyNone == Text("None", 0, 0)

EmptyString == Text("", 0, 0)

\* "Could not load job details", the description and the requirements of a
\* record whose detail page was not fetched
CouldNotLoad == Text("Could not load job details", 26, 22)

(***************************************************************************)
(* The state of a part of the program that a specification does not run    *)
(***************************************************************************)
CrawlIdle ==
    /\ n_pages = 0 /\ max_jobs = 1 /\ max_workers = 0
    /\ site = <<>> /\ fstate = <<>> /\ runner = <<>> /\ session = <<>>
    /\ yielded = {} /\ all_jobs = <<>> /\ processed_job_links = {}
    /\ cancel_i = 1 /\ stopped = FALSE /\ at_stop = <<>>
    /\ verified_jobs = <<>> /\ pc = "idle"

FetchIdle ==
    /\ fetch_retries = 0 /\ fetch_scrolls = 0 /\ fetch_attempt = 0
    /\ fetch_pc = "idle" /\ fetch_i = 0 /\ fetch_loads = 0
    /\ fetch_failures = 0 /\ fetch_waits = <<>> /\ fetch_result = "pending"

CleanIdle ==
    /\ clean_batch = <<>> /\ clean_lists = FALSE /\ clean_pc = "idle"
    /\ clean_result = [raised |-> "", rows |-> <<>>]

DetailIdle ==
    /\ detail_in = <<>> /\ detail_pc = "idle"
    /\ detail_result = [raised |-> FALSE, value |-> <<>>]

ListingIdle ==
    /\ listing_in = <<>> /\ max_jobs_per_page = 1 /\ listing_pc = "idle"
    /\ job_list = <<>> /\ jobs_to_process = <<>> /\ listing_i = 1
    /\ seen_job_ids = {} /\ results = <<>> /\ results_src = <<>>

SalaryIdle ==
    /\ salary_batch = <<>>
    /\ salary_pc = "idle"
    /\ salary_result = <<>>

ExpiryIdle ==
    /\ expiry_today = 0
    /\ expiry_in = <<>>
    /\ expiry_pc = "idle"
    /\ expiry_result = <<>>

TagIdle ==
    /\ tag_text = <<>>
    /\ tag_pc = "idle"
    /\ found_skills = <<>>

CountsIdle ==
    /\ skills_column = <<>>
    /\ counts_pc = "idle"
    /\ skill_counts = <<>>
    /\ counts_table = <<>>

FilterIdle ==
    /\ filter_df = <<>>
    /\ filter_pc = "idle"
    /\ filtered_once = <<>>
    /\ filtered_twice = <<>>

PaginationIdle ==
    /\ search = <<>>
    /\ base_url = <<>>
    /\ max_page = 0
    /\ pagination_pc = "idle"
    /\ base_part = <<>>
    /\ page = 0
    /\ urls = <<>>

notCrawlVars == <<fetchVars, cleanVars, detailVars, listingVars, salaryVars, expiryVars, tagVars, countsVars, filterVars, paginationVars>>
notFetchVars == <<crawlVars, cleanVars, detailVars, listingVars, salaryVars, expiryVars, tagVars, countsVars, filterVars, paginationVars>>
notCleanVars == <<crawlVars, fetchVars, detailVars, listingVars, salaryVars, expiryVars, tagVars, countsVars, filterVars, paginationVars>>
notDetailVars == <<crawlVars, fetchVars, cleanVars, listingVars, salaryVars, expiryVars, tagVars, countsVars, filterVars, paginationVars>>
notListingVars == <<crawlVars, fetchVars, cleanVars, detailVars, salaryVars, expiryVars, tagVars, countsVars, filterVars, paginationVars>>
notSalaryVars == <<crawlVars, fetchVars, cleanVars, detailVars, listingVars, expiryVars, tagVars, countsVars, filterVars, paginationVars>>
notExpiryVars == <<crawlVars, fetchVars, cleanVars, detailVars, listingVars, salaryVars, tagVars, countsVars, filterVars, paginationVars>>
notTagVars == <<crawlVars, fetchVars, cleanVars, detailVars, listingVars, salaryVars, expiryVars, countsVars, filterVars, paginationVars>>
notCountsVars == <<crawlVars, fetchVars, cleanVars, detailVars, listingVars, salaryVars, expiryVars, tagVars, filterVars, paginationVars>>
notFilterVars == <<crawlVars, fetchVars, cleanVars, detailVars, listingVars, salaryVars, expiryVars, tagVars, countsVars, paginationVars>>
notPaginationVars == <<crawlVars, fetchVars, cleanVars, detailVars, listingVars, salaryVars, expiryVars, tagVars, countsVars, filterVars>>

(***************************************************************************)
(* scrape: the page tasks                                                  *)
(***************************************************************************)
Pages == 1..n_pages
Workers == 1..max_workers
MainThread == 0

\* A page of the site: the job links of its listings, and how its task ends:
\*   "ok"     get_jobs_from_page returns one record per listing
\*   "null"   get_soup returned None after its retries
\*   "raise"  an exception leaves get_jobs_from_page
TaskKinds == {"ok", "null", "raise"}

PageOutcomes(nl, mp) == [kind : TaskKinds, links : SeqsUpTo(1..nl, mp)]

RECURSIVE TotalListings(_)
TotalListings(s) ==
    IF s = <<>> THEN 0 ELSE Len(Head(s).links) + TotalListings(Tail(s))

RECURSIVE AllLinks(_)
\* The links of a site's records, page after page
AllLinks(s) == IF s = <<>> THEN <<>> ELSE Head(s).links \o AllLinks(Tail(s))

\* Links are names: a site is taken once, with its links numbered in the
\* order of their first occurrence
FirstOccurrenceOrder(ls) ==
    \A i \in DOMAIN ls : ls[i] = 1 \/ \E j \in 1..(i - 1) : ls[j] = ls[i] - 1

RECURSIVE Sites(_, _)
\* The sites of n pages that hold at most budget listings
Sites(n, budget) ==
    IF n = 0 THEN {<<>>}
    ELSE UNION {{Append(s, o) : o \in PageOutcomes(NLinks, budget - TotalListings(s))} :
                s \in Sites(n - 1, budget)}

\* future.result() raises what the task raised
PageRaises(p) == site[p].kind = "raise"

\* (variant: the listings of a page whose fetch returned None are returned)
PageJobs_IgnoreFailure(p) ==
    [i \in 1..Len(site[p].links) |->
        [link |-> site[p].links[i], page |-> p, pos |-> i,
         description |-> CouldNotLoad, requirements |-> CouldNotLoad]]

\* The records get_jobs_from_page returns for page p: none when the fetch
\* returned None
PageJobs(p) ==
    IF site[p].kind = "ok"
    THEN [i \in 1..Len(site[p].links) |->
            [link |-> site[p].links[i], page |-> p, pos |-> i,
             description |-> CouldNotLoad, requirements |-> CouldNotLoad]]
    ELSE <<>>


RECURSIVE MergeJobs_NoDedup(_, _, _)
\* (variant: the merge without the processed_job_links test)
MergeJobs_NoDedup(jobs, all, seen) ==
    IF jobs = <<>> THEN [all |-> all, seen |-> seen]
    ELSE MergeJobs_NoDedup(Tail(jobs), Append(all, Head(jobs)),
                           seen \cup {Head(jobs).link})

RECURSIVE MergeJobs(_, _, _)
\* The dedup loop of scrape: a job is appended when its link is non-empty and
\* not in processed_job_links
MergeJobs(jobs, all, seen) ==
    IF jobs = <<>> THEN [all |-> all, seen |-> seen]
    ELSE LET job == Head(jobs) IN
         IF job.link # EmptyLink /\ job.link \notin seen
         THEN MergeJobs(Tail(jobs), Append(all, job), seen \cup {job.link})
         ELSE MergeJobs(Tail(jobs), all, seen)

\* (variant: the target counts as reached one record early)
TargetReached_OneShort(all) == Len(all) + 1 >= max_jobs

\* (variant: > for >=)
TargetReached_Strict(all) == Len(all) > max_jobs

\* if len(all_jobs) >= self.max_jobs
TargetReached(all) == Len(all) >= max_jobs

\* (variant: no slice)
Truncate_NoCap(all) == all

\* all_jobs[:self.max_jobs]
Truncate(all) == SubSeq(all, 1, Min(Len(all), max_jobs))

\* isinstance(v, str) and v
NonEmptyStr(v) == v # PyNone /\ v # EmptyString

\* (variant: the requirements are not looked at)
IsValidJob_DescOnly(job) == NonEmptyStr(job.description)

\* The validity pass: description and requirements are non-empty strings
IsValidJob(job) ==
    NonEmptyStr(job.description) /\ NonEmptyStr(job.requirements)

VerifiedJobs(all) == FilterSeq(Truncate(all), {j \in Range(all) : IsValidJob(j)})

\* (variant: cancel has no effect)
CancelFuture_Noop(st) == st

\* Future.cancel(): a pending future becomes cancelled, a running or
\* finished one is left alone
CancelFuture(st) == IF st = "pending" THEN "cancelled" ELSE st

\* (variant: shutdown(wait=False))
Joined_NoWait(st) == TRUE

\* executor.shutdown(wait=True) returns once a future is finished or was
\* cancelled before it started
Joined(st) == st \in {"finished", "cancelled"}

\* The thread whose thread_local the clean-up loop of scrape reads: the loop
\* runs in the main thread and thread_local is that thread's own
CleanupTarget(thread) == MainThread

\* threading.enumerate() after the pool is shut down: the workers have ended
LiveThreads == {MainThread}

CrawlInit ==
    /\ max_workers \in 1..MaxWorkers
    /\ \/ /\ n_pages \in 1..MaxPages
          /\ max_jobs \in 1..MaxJobs
          /\ site \in {s \in Sites(n_pages, MaxListings) :
                          FirstOccurrenceOrder(AllLinks(s))}
       \/ \* two pages of six listings, two links shared, max_jobs = 10
          /\ n_pages = 2
          /\ max_jobs = 10
          /\ site = <<[kind |-> "ok", links |-> <<1, 2, 3, 4, 5, 6>>],
                      [kind |-> "ok", links |-> <<5, 6, 7, 8, 9, 10>>]>>
    /\ fstate = [p \in 1..n_pages |-> "pending"]
    /\ runner = [w \in 1..max_workers |-> 0]
    /\ session = [t \in 0..max_workers |-> "none"]
    /\ yielded = {}
    /\ all_jobs = <<>>
    /\ processed_job_links = {}
    /\ cancel_i = 1
    /\ stopped = FALSE
    /\ at_stop = <<>>
    /\ verified_jobs = <<>>
    /\ pc = "as_completed"

\* A worker thread takes the next queued page task; get_soup -> get_driver
\* creates the thread's browser session on first use.  The pool's threads are
\* interchangeable: of the idle ones, the one of the lowest index takes it.
StartTask(w) ==
    /\ pc \in {"as_completed", "cancel", "shutdown"}
    /\ runner[w] = 0
    /\ \A v \in Workers : v < w => runner[v] # 0
    /\ \E p \in Pages :
        /\ fstate[p] = "pending"
        /\ \A q \in Pages : q < p => fstate[q] # "pending"
        /\ fstate' = [fstate EXCEPT ![p] = "running"]
        /\ runner' = [runner EXCEPT ![w] = p]
    /\ session' = [session EXCEPT ![w] = "open"]
    /\ UNCHANGED <<n_pages, max_jobs, max_workers, site, yielded, all_jobs,
                   processed_job_links, cancel_i, stopped, at_stop,
                   verified_jobs, pc>>

\* get_jobs_from_page returns or raises: the future is done
FinishTask(w) ==
    /\ runner[w] # 0
    /\ fstate' = [fstate EXCEPT ![runner[w]] = "finished"]
    /\ runner' = [runner EXCEPT ![w] = 0]
    /\ UNCHANGED <<n_pages, max_jobs, max_workers, site, session, yielded,
                   all_jobs, processed_job_links, cancel_i, stopped, at_stop,
                   verified_jobs, pc>>

\* One iteration of the as_completed loop on the future of page p
MergePage(p) ==
    /\ pc = "as_completed"
    /\ fstate[p] = "finished"
    /\ p \notin yielded
    /\ yielded' = yielded \cup {p}
    /\ IF PageRaises(p)
       THEN \* except Exception: the loop goes on to the next future
            UNCHANGED <<all_jobs, processed_job_links, pc, stopped, at_stop>>
       ELSE LET m == MergeJobs(PageJobs(p), all_jobs, processed_job_links) IN
            /\ all_jobs' = m.all
            /\ processed_job_links' = m.seen
            /\ IF TargetReached(m.all)
               THEN pc' = "cancel" /\ stopped' = TRUE /\ at_stop' = fstate
               ELSE UNCHANGED <<pc, stopped, at_stop>>
    /\ UNCHANGED <<n_pages, max_jobs, max_workers, site, fstate, runner,
                   session, cancel_i, verified_jobs>>

\* for f in future_to_page: if not f.done(): f.cancel()
CancelStep ==
    /\ pc = "cancel"
    /\ IF cancel_i <= n_pages
       THEN /\ fstate' = [fstate EXCEPT ![cancel_i] = CancelFuture(fstate[cancel_i])]
            /\ cancel_i' = cancel_i + 1
            /\ pc' = pc
       ELSE /\ pc' = "shutdown"
            /\ UNCHANGED <<fstate, cancel_i>>
    /\ UNCHANGED <<n_pages, max_jobs, max_workers, site, runner, session,
                   yielded, all_jobs, processed_job_links, stopped, at_stop,
                   verified_jobs>>

\* as_completed is exhausted: every future was handed to the loop
LoopEnd ==
    /\ pc = "as_completed"
    /\ yielded = Pages
    /\ pc' = "shutdown"
    /\ UNCHANGED <<n_pages, max_jobs, max_workers, site, fstate, runner,
                   session, yielded, all_jobs, processed_job_links, cancel_i,
                   stopped, at_stop, verified_jobs>>

\* Leaving the with block: executor.shutdown(wait=True) joins the workers
Shutdown ==
    /\ pc = "shutdown"
    /\ \A p \in Pages : Joined(fstate[p])
    /\ pc' = "cleanup"
    /\ UNCHANGED <<n_pages, max_jobs, max_workers, site, fstate, runner,
                   session, yielded, all_jobs, processed_job_links, cancel_i,
                   stopped, at_stop, verified_jobs>>

\* The clean-up loop: one quit per enumerated thread, on the driver that
\* thread_local holds for the thread running the loop
Cleanup ==
    /\ pc = "cleanup"
    /\ session' = [t \in DOMAIN session |->
                     IF /\ session[t] # "none"
                        /\ \E th \in LiveThreads : CleanupTarget(th) = t
                     THEN "quit" ELSE session[t]]
    /\ pc' = "verify"
    /\ UNCHANGED <<n_pages, max_jobs, max_workers, site, fstate, runner,
                   yielded, all_jobs, processed_job_links, cancel_i, stopped,
                   at_stop, verified_jobs>>

\* The final validity pass and the return
Verify ==
    /\ pc = "verify"
    /\ verified_jobs' = VerifiedJobs(all_jobs)
    /\ pc' = "done"
    /\ UNCHANGED <<n_pages, max_jobs, max_workers, site, fstate, runner,
                   session, yielded, all_jobs, processed_job_links, cancel_i,
                   stopped, at_stop>>

CrawlNext ==
    \/ (\E w \in Workers : StartTask(w)) /\ UNCHANGED notCrawlVars
    \/ (\E w \in Workers : FinishTask(w)) /\ UNCHANGED notCrawlVars
    \/ (\E p \in Pages : MergePage(p)) /\ UNCHANGED notCrawlVars
    \/ CancelStep /\ UNCHANGED notCrawlVars
    \/ LoopEnd /\ UNCHANGED notCrawlVars
    \/ Shutdown /\ UNCHANGED notCrawlVars
    \/ Cleanup /\ UNCHANGED notCrawlVars
    \/ Verify /\ UNCHANGED notCrawlVars

\* The state the crawl specification starts in
CrawlStart ==
    /\ CrawlInit
    /\ FetchIdle
    /\ CleanIdle
    /\ DetailIdle
    /\ ListingIdle
    /\ SalaryIdle
    /\ ExpiryIdle
    /\ TagIdle
    /\ CountsIdle
    /\ FilterIdle
    /\ PaginationIdle

SpecCrawl == CrawlStart /\ [][CrawlNext]_vars

\* The crawl with its threads scheduled: a step that can be taken is taken,
\* and a task that runs ends (each fetch terminates).  How the tasks and the
\* loop alternate does not depend on how many listings a page has: the
\* pages here have at most one, and a task returns records or raises
CrawlLiveStart ==
    /\ CrawlStart
    /\ \A p \in Pages : Len(site[p].links) <= 1 /\ site[p].kind # "null"

SpecCrawlLive == CrawlLiveStart /\ [][CrawlNext]_vars /\ WF_vars(CrawlNext)

\* ---- the validity pass on its own ----
\* What the pass may meet in the two fields of a merged record
FieldValues == {CouldNotLoad, EmptyString, PyNone}

\* The merged records of one page of k listings
MergedJobs(k) ==
    {[i \in 1..k |-> [link |-> i, page |-> 1, pos |-> i,
                      description |-> d[i], requirements |-> r[i]]] :
        d \in [1..k -> FieldValues], r \in [1..k -> FieldValues]}

\* scrape after the clean-up loop: one page was fetched by one worker and
\* its k records were merged
VerifyInit ==
    /\ n_pages = 1
    /\ max_workers = 1
    /\ max_jobs \in 1..MaxJobs
    /\ \E k \in 0..MaxListings :
          /\ site = <<[kind |-> "ok", links |-> [i \in 1..k |-> i]]>>
          /\ all_jobs \in MergedJobs(k)
          /\ processed_job_links = 1..k
    /\ fstate = <<"finished">>
    /\ runner = <<0>>
    /\ session = [t \in 0..1 |-> IF t = MainThread THEN "none" ELSE "open"]
    /\ yielded = {1}
    /\ cancel_i = 1
    /\ stopped = FALSE
    /\ at_stop = <<>>
    /\ verified_jobs = <<>>
    /\ pc = "verify"

VerifyNext == Verify /\ UNCHANGED notCrawlVars

VerifyStart ==
    /\ VerifyInit
    /\ FetchIdle
    /\ CleanIdle
    /\ DetailIdle
    /\ ListingIdle
    /\ SalaryIdle
    /\ ExpiryIdle
    /\ TagIdle
    /\ CountsIdle
    /\ FilterIdle
    /\ PaginationIdle

SpecVerify == VerifyStart /\ [][VerifyNext]_vars

(***************************************************************************)
(* Properties of scrape                                                    *)
(***************************************************************************)
LinksOf(jobs) == {jobs[i].link : i \in DOMAIN jobs}

NoDupLinks(jobs) ==
    \A i, j \in DOMAIN jobs : i # j => jobs[i].link # jobs[j].link

IsPrefix(s, t) == Len(s) <= Len(t) /\ \A i \in DOMAIN s : s[i] = t[i]

\* The distinct links of the pages merged so far
MergedLinks == UNION {Range(site[p].links) : p \in {q \in yielded : site[q].kind = "ok"}}

\* C1: no two records of the merged collection or of the returned collection
\* share a Job Link, and a merged record is never replaced or dropped by a
\* later merge: the returned collection is a prefix of the merge order.
C1_DedupFirstKept ==
    [][/\ NoDupLinks(all_jobs')
       /\ NoDupLinks(verified_jobs')
       /\ IsPrefix(all_jobs, all_jobs')
       /\ IsPrefix(verified_jobs', all_jobs')]_vars

\* C1 witness: two merged pages share a link and the crawl has returned it
C1_Witness ==
    /\ pc = "done"
    /\ \E p, q \in yielded :
        /\ p # q /\ site[p].kind = "ok" /\ site[q].kind = "ok"
        /\ \E l \in Range(site[p].links) \cap Range(site[q].links) :
              l \in LinksOf(verified_jobs)

\* C2 (as stated): the records of a page task that was running when the job
\* target was reached are merged once it completes.
C2_RunningStillMerged ==
    pc = "done" =>
        \A p \in DOMAIN at_stop :
            (at_stop[p] = "running" /\ site[p].kind = "ok")
                => Range(site[p].links) \subseteq LinksOf(all_jobs)

\* C2 (amended): max_jobs is a hard cap.  Once the merged count has reached
\* max_jobs nothing more is merged, whatever tasks are still running, and the
\* returned collection never holds more than max_jobs records.
C2_HardCap ==
    [][/\ (Len(all_jobs) >= max_jobs => all_jobs' = all_jobs)
       /\ Len(verified_jobs') <= max_jobs]_vars

\* C2 witness: a task was running when the target was reached, it completed,
\* and a link of its page is not in the result; or one merge passed the
\* target and the result was cut to max_jobs
C2_Witness ==
    /\ pc = "done"
    /\ \/ \E p \in DOMAIN at_stop :
            /\ at_stop[p] = "running" /\ fstate[p] = "finished"
            /\ site[p].kind = "ok"
            /\ ~(Range(site[p].links) \subseteq LinksOf(all_jobs))
       \/ Len(all_jobs) > max_jobs /\ Len(verified_jobs) = max_jobs

\* C3: when every page task succeeds the crawl returns min(max_jobs, D)
\* records, D the number of distinct links of the pages merged before the
\* stop; the crawl of two pages of six listings sharing two links, with
\* max_jobs = 10, returns 10 records.
C3_ExactCount ==
    (pc = "done" /\ \A p \in Pages : site[p].kind = "ok") =>
        /\ Len(verified_jobs) = Min(max_jobs, Cardinality(MergedLinks))
        /\ (max_jobs = 10 /\ Len(site[1].links) = 6) => Len(verified_jobs) = 10

\* C3 witness: the two-page crawl has returned its 10 records
C3_Witness ==
    /\ pc = "done" /\ max_jobs = 10
    /\ Len(verified_jobs) = 10
    /\ yielded = {1, 2}

\* C4 (as stated): a page task that had not started when the job target was
\* reached never starts.
C4_PendingNeverStarts ==
    \A p \in DOMAIN at_stop :
        at_stop[p] = "pending" => fstate[p] \in {"pending", "cancelled"}

\* C4 (amended): once the target is reached nothing more is merged; a task
\* still pending when its cancel is called is cancelled and never starts, so
\* no task is pending once the cancelling loop is over; a task that is
\* running, started before its cancel was called, is not interrupted.
C4_CancelAdvisory ==
    [][/\ (Len(all_jobs) >= max_jobs => all_jobs' = all_jobs)
       /\ \A p \in Pages :
            /\ fstate[p] = "cancelled" => fstate'[p] = "cancelled"
            /\ fstate[p] = "running" => fstate'[p] \in {"running", "finished"}
            /\ (stopped' /\ pc' # "cancel") => fstate'[p] # "pending"]_vars

\* C4 witness: the crawl has returned with a cancelled page task
C4_Witness ==
    /\ pc = "done" /\ stopped
    /\ \E p \in Pages : fstate[p] = "cancelled" /\ at_stop[p] = "pending"

\* C5: a page whose task raised or whose fetch returned None contributes no
\* record; every page that succeeded and was handed to the loop has all its
\* links in the merged collection; unless the target stopped the loop every
\* page was handed to it.
C5_FailureIsolated ==
    pc = "done" =>
        /\ \A i \in DOMAIN all_jobs : site[all_jobs[i].page].kind = "ok"
        /\ \A p \in yielded :
              site[p].kind = "ok" => Range(site[p].links) \subseteq LinksOf(all_jobs)
        /\ ~stopped => yielded = Pages

\* C5 witness: a page with listings failed, another page's record is returned
C5_Witness ==
    /\ pc = "done"
    /\ \E p, q \in Pages :
        /\ site[p].kind # "ok" /\ site[p].links # <<>>
        /\ site[q].kind = "ok"
        /\ \E i \in DOMAIN verified_jobs : verified_jobs[i].page = q

RECURSIVE IsSubSeq(_, _)
\* s is a subsequence of t
IsSubSeq(s, t) ==
    IF s = <<>> THEN TRUE
    ELSE IF t = <<>> THEN FALSE
    ELSE IF Head(s) = Head(t) THEN IsSubSeq(Tail(s), Tail(t))
    ELSE IsSubSeq(s, Tail(t))

\* C11: every record of the returned collection has a description and a
\* requirements field that are non-empty strings; the returned records are
\* merged records as they were merged (none repaired), in merge order, and a
\* merged record among the first max_jobs is left out exactly when one of
\* the two fields is not a non-empty string.
C11_OnlyValidReturned ==
    pc = "done" =>
        /\ \A i \in DOMAIN verified_jobs :
              /\ verified_jobs[i].description \notin {PyNone, EmptyString}
              /\ verified_jobs[i].requirements \notin {PyNone, EmptyString}
        /\ IsSubSeq(verified_jobs, all_jobs)
        /\ \A i \in 1..Min(Len(all_jobs), max_jobs) :
              (\E k \in DOMAIN verified_jobs : verified_jobs[k] = all_jobs[i])
              <=> /\ all_jobs[i].description \notin {PyNone, EmptyString}
                  /\ all_jobs[i].requirements \notin {PyNone, EmptyString}

\* C11 witness: a merged record with empty requirements was dropped and
\* another one was returned
C11_Witness ==
    /\ pc = "done"
    /\ Len(verified_jobs) = 1
    /\ \E i \in 1..Min(Len(all_jobs), max_jobs) :
          /\ all_jobs[i].description = CouldNotLoad
          /\ all_jobs[i].requirements = EmptyString
          /\ \A k \in DOMAIN verified_jobs : verified_jobs[k].link # i

\* C21: all_jobs and processed_job_links change only in one iteration of the
\* main thread's loop, on one page that had not been handed to the loop yet:
\* no task start, task end or other page's merge shares the step.  After the
\* step no link is in all_jobs twice, processed_job_links holds exactly the
\* links of all_jobs, what was merged before is still there, and every job of
\* that page with a link has its link in the collection.
C21_SerializedMerge ==
    [][(all_jobs' # all_jobs \/ processed_job_links' # processed_job_links) =>
          /\ pc = "as_completed"
          /\ UNCHANGED <<fstate, runner>>
          /\ \E p \in Pages :
                /\ p \notin yielded /\ yielded' = yielded \cup {p}
                /\ \A i \in DOMAIN site[p].links :
                      site[p].links[i] # EmptyLink =>
                          site[p].links[i] \in LinksOf(all_jobs')
                /\ \A i \in (Len(all_jobs) + 1)..Len(all_jobs') :
                      all_jobs'[i].page = p
          /\ IsPrefix(all_jobs, all_jobs')
          /\ NoDupLinks(all_jobs')
          /\ processed_job_links' = LinksOf(all_jobs')]_vars

\* C21 witness: both tasks were done before either was merged in the state
\* before; page 2 was merged first, then page 1, whose link was already seen
C21_Witness ==
    /\ pc = "as_completed"
    /\ yielded = {1, 2}
    /\ site[1].kind = "ok" /\ site[1].links = <<1>>
    /\ site[2].links = <<1>>
    /\ Len(all_jobs) = 1 /\ all_jobs[1].page = 2
    /\ processed_job_links = {1}

\* The distinct links of all the pages of the site
SiteLinks == UNION {Range(site[p].links) : p \in Pages}

\* C27: when no page task fails and the pages hold at most max_jobs distinct
\* links, the links of the returned collection are the distinct links of the
\* site, in whatever order the page tasks completed and were merged.
C27_SameLinksAnyOrder ==
    (/\ pc = "done"
     /\ \A p \in Pages : site[p].kind = "ok"
     /\ Cardinality(SiteLinks) <= max_jobs)
        => /\ LinksOf(verified_jobs) = SiteLinks
           /\ Len(verified_jobs) = Cardinality(SiteLinks)

\* C27 witness: two pages without failure, the second merged first, and the
\* crawl returned the links of both
C27_Witness ==
    /\ pc = "done"
    /\ n_pages = 2 /\ max_jobs = 2
    /\ site = <<[kind |-> "ok", links |-> <<1>>], [kind |-> "ok", links |-> <<2>>]>>
    /\ Len(all_jobs) = 2 /\ all_jobs[1].page = 2
    /\ LinksOf(verified_jobs) = {1, 2}

\* No page task is running or still to run
NoTaskLeft ==
    /\ \A p \in Pages : fstate[p] \in {"finished", "cancelled"}
    /\ \A w \in Workers : runner[w] = 0

\* C30: the crawl returns in every run, and while the session clean-up and
\* the validity pass execute and once the crawl has returned no page task
\* is running or pending, whether or not the job target stopped the loop.
C30_ReturnsAfterTasks ==
    /\ [](pc \in {"cleanup", "verify", "done"} => NoTaskLeft)
    /\ <>(pc = "done")

\* C30 witness: the target was reached while a page task was running; that
\* task has finished and the crawl has returned
C30_Witness ==
    /\ pc = "done" /\ stopped
    /\ \E p \in DOMAIN at_stop : at_stop[p] = "running" /\ fstate[p] = "finished"

\* C6: when the crawl returns, no browser session a worker created is open.
C6_SessionsClosed ==
    pc = "done" => \A t \in DOMAIN session : session[t] # "open"


(***************************************************************************)
(* get_soup: one fetch with its retry loop                                 *)
(***************************************************************************)
\* The scroll_times the program passes: the default, a detail page, a
\* listing page
ScrollTimes == {4, 5, 7}

\* (variant: <= for <)
CanRetry_OneMore(attempt, retries) == attempt <= retries

\* if attempt < retries
CanRetry(attempt, retries) == attempt < retries

\* wait_secs = (attempt + 1) * 2
Backoff(attempt) == (attempt + 1) * 2

FetchInit ==
    /\ fetch_retries \in 0..MaxRetries
    /\ fetch_scrolls \in ScrollTimes
    /\ fetch_attempt = 0
    /\ fetch_pc = "get_driver"
    /\ fetch_i = 0
    /\ fetch_loads = 0
    /\ fetch_failures = 0
    /\ fetch_waits = <<>>
    /\ fetch_result = "pending"

\* except Exception: sleep and go to the next attempt, or give up with None
FetchRaise ==
    /\ fetch_pc \in {"get_driver", "get", "wait", "scroll", "final", "source"}
    /\ fetch_failures' = fetch_failures + 1
    /\ fetch_i' = 0
    /\ IF CanRetry(fetch_attempt, fetch_retries)
       THEN /\ fetch_waits' = Append(fetch_waits, Backoff(fetch_attempt))
            /\ fetch_attempt' = fetch_attempt + 1
            /\ fetch_pc' = "get_driver"
            /\ UNCHANGED fetch_result
       ELSE /\ fetch_result' = "None"
            /\ fetch_pc' = "returned"
            /\ UNCHANGED <<fetch_waits, fetch_attempt>>
    /\ UNCHANGED <<fetch_retries, fetch_scrolls, fetch_loads>>

\* driver = CareerVietScraper.get_driver()
FetchGetDriver ==
    /\ fetch_pc = "get_driver"
    /\ fetch_pc' = "get"
    /\ UNCHANGED <<fetch_retries, fetch_scrolls, fetch_attempt, fetch_i,
                   fetch_loads, fetch_failures, fetch_waits, fetch_result>>

\* driver.get(url); driver.implicitly_wait(wait_time)
FetchLoad ==
    /\ fetch_pc = "get"
    /\ fetch_loads' = fetch_loads + 1
    /\ fetch_pc' = "wait"
    /\ UNCHANGED <<fetch_retries, fetch_scrolls, fetch_attempt, fetch_i,
                   fetch_failures, fetch_waits, fetch_result>>

\* WebDriverWait(...).until(...): the element shows up, or TimeoutException
\* is caught and printed; both go on to the scrolls
FetchWait ==
    /\ fetch_pc = "wait"
    /\ fetch_pc' = "scroll"
    /\ UNCHANGED <<fetch_retries, fetch_scrolls, fetch_attempt, fetch_i,
                   fetch_loads, fetch_failures, fetch_waits, fetch_result>>

\* for i in range(scroll_times): one incremental scroll
FetchScroll ==
    /\ fetch_pc = "scroll"
    /\ IF fetch_i < fetch_scrolls
       THEN fetch_i' = fetch_i + 1 /\ fetch_pc' = "scroll"
       ELSE fetch_i' = fetch_i /\ fetch_pc' = "final"
    /\ UNCHANGED <<fetch_retries, fetch_scrolls, fetch_attempt, fetch_loads,
                   fetch_failures, fetch_waits, fetch_result>>

\* The three final scrolls: bottom, top, bottom
FetchFinalScrolls ==
    /\ fetch_pc = "final"
    /\ fetch_pc' = "source"
    /\ UNCHANGED <<fetch_retries, fetch_scrolls, fetch_attempt, fetch_i,
                   fetch_loads, fetch_failures, fetch_waits, fetch_result>>

\* return BeautifulSoup(driver.page_source, 'html.parser')
FetchReturn ==
    /\ fetch_pc = "source"
    /\ fetch_result' = "soup"
    /\ fetch_pc' = "returned"
    /\ UNCHANGED <<fetch_retries, fetch_scrolls, fetch_attempt, fetch_i,
                   fetch_loads, fetch_failures, fetch_waits>>

FetchNext ==
    \/ FetchRaise /\ UNCHANGED notFetchVars
    \/ FetchGetDriver /\ UNCHANGED notFetchVars
    \/ FetchLoad /\ UNCHANGED notFetchVars
    \/ FetchWait /\ UNCHANGED notFetchVars
    \/ FetchScroll /\ UNCHANGED notFetchVars
    \/ FetchFinalScrolls /\ UNCHANGED notFetchVars
    \/ FetchReturn /\ UNCHANGED notFetchVars

\* The state the fetch specification starts in
FetchStart ==
    /\ FetchInit
    /\ CrawlIdle
    /\ CleanIdle
    /\ DetailIdle
    /\ ListingIdle
    /\ SalaryIdle
    /\ ExpiryIdle
    /\ TagIdle
    /\ CountsIdle
    /\ FilterIdle
    /\ PaginationIdle

SpecFetch == FetchStart /\ [][FetchNext]_vars

\* C7: get_soup makes at most retries + 1 load attempts; it sleeps 2k
\* seconds before its k-th retry; it returns the document of the first
\* attempt that did not raise; it returns None only when retries + 1
\* attempts raised; it returns one or the other.
C7_RetryContract ==
    /\ fetch_loads <= fetch_retries + 1
    /\ fetch_failures <= fetch_retries + 1
    /\ Len(fetch_waits) <= fetch_retries
    /\ \A k \in DOMAIN fetch_waits : fetch_waits[k] = 2 * k
    /\ fetch_pc = "returned" =>
          /\ fetch_result \in {"soup", "None"}
          /\ fetch_result = "None" <=> fetch_failures = fetch_retries + 1
          /\ fetch_result = "soup" =>
                /\ Len(fetch_waits) = fetch_failures
                /\ fetch_loads >= 1
    /\ fetch_pc # "returned" => fetch_result = "pending"

\* C7 witness: the fetch failed twice, slept 2 then 4 seconds, and returned
\* the document of its third attempt
C7_Witness ==
    /\ fetch_pc = "returned" /\ fetch_result = "soup"
    /\ fetch_waits = <<2, 4>>
    /\ fetch_failures = 2


(***************************************************************************)
(* clean: the batch normaliser                                             *)
(*                                                                         *)
(* A text is a sequence of tokens (words, numbers, the hyphen); a number   *)
(* token is its decimal string.  Vietnamese words are written without      *)
(* their diacritics.                                                       *)
(***************************************************************************)
\* A missing value of a numeric column
NaN == -1

NumberTokens == {"0", "1", "2", "3", "5", "10", "15", "20", "800", "1200"}

NumberOf(tok) ==
    CASE tok = "0" -> 0 [] tok = "1" -> 1 [] tok = "2" -> 2
      [] tok = "3" -> 3 [] tok = "5" -> 5 [] tok = "10" -> 10
      [] tok = "15" -> 15 [] tok = "20" -> 20 [] tok = "800" -> 800
      [] tok = "1200" -> 1200

\* str.title() on one token
TitleCase(tok) ==
    CASE tok = "tren" -> "Tren"
      [] tok = "len den" -> "Len Den"
      [] tok = "nam" -> "Nam"
      [] tok = "chua co kinh nghiem" -> "Chua Co Kinh Nghiem"
      [] tok = "Not available" -> "Not Available"
      [] tok = "nan" -> "Nan"
      [] tok = "USD" -> "Usd"
      [] tok = "VND" -> "Vnd"
      [] tok = "canh tranh" -> "Canh Tranh"
      [] OTHER -> tok

\* df['Experience'].astype(str).str.title().str.strip()
TitleText(text) == [i \in DOMAIN text |-> TitleCase(text[i])]

\* The Experience texts of the raw records
ExperienceTexts ==
    { <<"1", "-", "2", "nam">>,
      <<"2", "Nam">>,
      <<"tren", "5", "nam">>,
      <<"Len Den", "3", "Nam">>,
      <<"chua co kinh nghiem">>,
      <<"Not available">>,
      <<"1", "-", "2", "-", "3", "nam">> }

RawRecords == [Experience : ExperienceTexts]

RECURSIVE SplitOn(_, _)
\* str.split(sep): the parts of a text between its separators
SplitOn(text, sep) ==
    IF \A i \in DOMAIN text : text[i] # sep THEN <<text>>
    ELSE LET k == CHOOSE i \in DOMAIN text :
                    text[i] = sep /\ \A j \in 1..(i - 1) : text[j] # sep
         IN <<SubSeq(text, 1, k - 1)>> \o SplitOn(SubSeq(text, k + 1, Len(text)), sep)

\* str.split('-', expand=True): as many columns as the longest split
SplitColumns(texts) ==
    LET n == Len(texts) IN
    CHOOSE c \in 0..100 :
        /\ \A i \in 1..n : Len(SplitOn(texts[i], "-")) <= c
        /\ (n = 0 /\ c = 0) \/ \E i \in 1..n : Len(SplitOn(texts[i], "-")) = c

\* (variant: surplus columns are dropped and missing ones filled with None)
SplitFits_Lenient(texts) == TRUE

\* df[['exp_min', 'exp_max']] = <the split>: the frame assigned to the two
\* columns must have two columns, or pandas raises ValueError
SplitFits(texts) == SplitColumns(texts) = 2

\* One column of the split of one text: None where the text has fewer parts
SplitPart(text, k) ==
    LET parts == SplitOn(text, "-") IN
    IF k <= Len(parts) THEN parts[k] ELSE <<"<None>">>

\* str.extract(r'(\d+\.?\d*)') and pd.to_numeric(errors='coerce'): the first
\* number of the text, NaN when it has none
FirstNumber(text) ==
    IF \E i \in DOMAIN text : text[i] \in NumberTokens
    THEN NumberOf(text[CHOOSE i \in DOMAIN text :
                        /\ text[i] \in NumberTokens
                        /\ \A j \in 1..(i - 1) : text[j] \notin NumberTokens])
    ELSE NaN

\* str.contains(marker)
Contains(text, marker) == \E i \in DOMAIN text : text[i] = marker

RECURSIVE SumOf(_)
SumOf(xs) == IF xs = <<>> THEN 0 ELSE Head(xs) + SumOf(Tail(xs))

RECURSIVE DropNaN(_)
DropNaN(xs) ==
    IF xs = <<>> THEN <<>>
    ELSE IF Head(xs) = NaN THEN DropNaN(Tail(xs))
    ELSE <<Head(xs)>> \o DropNaN(Tail(xs))

\* round(column.mean(), 0): the mean of the values that are not NaN, rounded
\* half to even; NaN when every value is NaN
RoundedMean(xs) ==
    LET ys == DropNaN(xs)
        n == Len(ys)
        t == SumOf(ys)
    IN IF n = 0 THEN NaN
       ELSE LET q == t \div n
                r == t % n
            IN IF 2 * r < n THEN q
               ELSE IF 2 * r > n THEN q + 1
               ELSE IF q % 2 = 0 THEN q ELSE q + 1

\* column.fillna(value)
FillNa(xs, value) == [i \in DOMAIN xs |-> IF xs[i] = NaN THEN value ELSE xs[i]]

\* _clean_experience, after the split: the two numeric columns
ExperienceColumns(texts) ==
    LET n == Len(texts)
        min0 == [i \in 1..n |-> FirstNumber(SplitPart(texts[i], 1))]
        max0 == [i \in 1..n |-> FirstNumber(SplitPart(texts[i], 2))]
        \* 'Chua Co Kinh Nghiem': both bounds 0
        min1 == [i \in 1..n |->
                   IF Contains(texts[i], "Chua Co Kinh Nghiem") THEN 0 ELSE min0[i]]
        max1 == [i \in 1..n |->
                   IF Contains(texts[i], "Chua Co Kinh Nghiem") THEN 0 ELSE max0[i]]
        \* 'Tren': exp_max = NaN
        max2 == [i \in 1..n |-> IF Contains(texts[i], "Tren") THEN NaN ELSE max1[i]]
        \* 'Len Den': exp_min = 0
        min2 == [i \in 1..n |-> IF Contains(texts[i], "Len Den") THEN 0 ELSE min1[i]]
    IN [exp_min |-> FillNa(min2, RoundedMean(min2)),
        exp_max |-> FillNa(max2, RoundedMean(max2))]

\* _clean_experience on the batch: ValueError, or the rows with their
\* titled Experience text and the two bounds
CleanExperience(batch) ==
    LET texts == [i \in DOMAIN batch |-> TitleText(batch[i].Experience)] IN
    IF ~SplitFits(texts) THEN [raised |-> "ValueError", rows |-> <<>>]
    ELSE LET cols == ExperienceColumns(texts) IN
         [raised |-> "",
          rows |-> [i \in DOMAIN batch |->
                      [Experience |-> texts[i],
                       exp_min |-> cols.exp_min[i],
                       exp_max |-> cols.exp_max[i]]]]

RECURSIVE DropDuplicates(_)
\* drop_duplicates(): the first of equal rows is kept
DropDuplicates(rows) ==
    IF rows = <<>> THEN <<>>
    ELSE LET init == DropDuplicates(SubSeq(rows, 1, Len(rows) - 1))
             last == rows[Len(rows)]
         IN IF \E i \in 1..(Len(rows) - 1) : rows[i] = last
            THEN init ELSE Append(init, last)

\* clean: the column passes in order, then drop_duplicates, which hashes the
\* cells of every column and raises TypeError on a list
CleanBatch(batch, lists) ==
    LET e == CleanExperience(batch) IN
    IF e.raised # "" THEN e
    ELSE IF lists THEN [raised |-> "TypeError", rows |-> <<>>]
    ELSE [raised |-> "", rows |-> DropDuplicates(e.rows)]

CleanInit ==
    /\ clean_batch \in UNION {[1..k -> RawRecords] : k \in 1..MaxBatch}
    /\ clean_lists \in BOOLEAN
    /\ clean_pc = "start"
    /\ clean_result = [raised |-> "", rows |-> <<>>]

Clean ==
    /\ clean_pc = "start"
    /\ clean_result' = CleanBatch(clean_batch, clean_lists)
    /\ clean_pc' = "done"
    /\ UNCHANGED <<clean_batch, clean_lists>>

CleanNext == Clean /\ UNCHANGED notCleanVars

\* The state the clean specification starts in
CleanStart ==
    /\ CleanInit
    /\ CrawlIdle
    /\ FetchIdle
    /\ DetailIdle
    /\ ListingIdle
    /\ SalaryIdle
    /\ ExpiryIdle
    /\ TagIdle
    /\ CountsIdle
    /\ FilterIdle
    /\ PaginationIdle

SpecClean == CleanStart /\ [][CleanNext]_vars

\* C8: clean completes on every batch: it raises nothing, whatever the
\* number of hyphens of the Experience texts.
C8_NeverAborts == clean_pc = "done" => clean_result.raised = ""

\* C8, the case the claim names: a batch none of whose Experience texts has a
\* hyphen, read from a CSV file, has been given to clean
C8_Witness ==
    /\ clean_pc = "done" /\ ~clean_lists
    /\ \A i \in DOMAIN clean_batch : ~Contains(clean_batch[i].Experience, "-")


\* exp_max of a titled text as it stands when the column is imputed
ResolvedExpMax(text) ==
    IF Contains(text, "Tren") THEN NaN
    ELSE IF Contains(text, "Chua Co Kinh Nghiem") THEN 0
    ELSE FirstNumber(SplitPart(text, 2))

\* C15 (as stated): for a record whose text is 'Tren 5 nam', clean gives
\* exp_min = 5 and an exp_max that is the rounded mean of exp_max over the
\* rows of the batch that have one when the column is imputed, the row
\* itself not among them.  (Batches read from a file: the Welfare column
\* holds no lists.)
C15_MoreThanRule ==
    (clean_pc = "done" /\ ~clean_lists
        /\ \E i \in DOMAIN clean_batch :
              clean_batch[i].Experience = <<"tren", "5", "nam">>) =>
        /\ clean_result.raised = ""
        /\ \E k \in DOMAIN clean_result.rows :
              clean_result.rows[k].Experience = <<"Tren", "5", "Nam">>
        /\ \A k \in DOMAIN clean_result.rows :
              clean_result.rows[k].Experience = <<"Tren", "5", "Nam">> =>
                /\ clean_result.rows[k].exp_min = 5
                /\ clean_result.rows[k].exp_max =
                     RoundedMean([i \in DOMAIN clean_batch |->
                        ResolvedExpMax(TitleText(clean_batch[i].Experience))])

\* C15 witness: the one-row batch 'tren 5 nam' was given to clean, which
\* raised
C15_Witness ==
    /\ clean_pc = "done" /\ ~clean_lists
    /\ clean_batch = <<[Experience |-> <<"tren", "5", "nam">>]>>
    /\ clean_result.raised = "ValueError"

\* C16 (as stated): for a record whose text is the no-experience marker,
\* clean gives exp_min = 0 and exp_max = 0, whatever the other rows of the
\* batch are.  (Batches read from a file.)
C16_NoExperienceRule ==
    (clean_pc = "done" /\ ~clean_lists
        /\ \E i \in DOMAIN clean_batch :
              clean_batch[i].Experience = <<"chua co kinh nghiem">>) =>
        /\ clean_result.raised = ""
        /\ \E k \in DOMAIN clean_result.rows :
              clean_result.rows[k].Experience = <<"Chua Co Kinh Nghiem">>
        /\ \A k \in DOMAIN clean_result.rows :
              clean_result.rows[k].Experience = <<"Chua Co Kinh Nghiem">> =>
                /\ clean_result.rows[k].exp_min = 0
                /\ clean_result.rows[k].exp_max = 0

\* C16 witness: a batch of a no-experience row and a more-than row was
\* given to clean, which raised
C16_Witness ==
    /\ clean_pc = "done" /\ ~clean_lists
    /\ clean_batch = <<[Experience |-> <<"chua co kinh nghiem">>],
                       [Experience |-> <<"tren", "5", "nam">>]>>
    /\ clean_result.raised = "ValueError"

\* C29: when clean completes, every row whose exp_min and exp_max are both
\* numbers has exp_min <= exp_max, the rows whose exp_max was filled with the
\* batch mean included.
C29_MinAtMostMax ==
    (clean_pc = "done" /\ clean_result.raised = "") =>
        \A i \in DOMAIN clean_result.rows :
            LET row == clean_result.rows[i] IN
            (row.exp_min # NaN /\ row.exp_max # NaN) => row.exp_min <= row.exp_max

\* C29 witness: 'Tren 5 nam' next to '1 - 2 nam': the first row keeps
\* exp_min = 5 and its exp_max is filled with the mean of the column, 2
C29_Witness ==
    /\ clean_pc = "done" /\ clean_result.raised = ""
    /\ clean_batch = <<[Experience |-> <<"tren", "5", "nam">>],
                       [Experience |-> <<"1", "-", "2", "nam">>]>>
    /\ clean_result.rows[1].exp_min = 5
    /\ clean_result.rows[1].exp_max = 2

(***************************************************************************)
(* _clean_text_fields and _clean_salary: the salary columns                *)
(*                                                                         *)
(* A column value is a fraction n/d in lowest terms; d = 0 stands for NaN. *)
(***************************************************************************)
ExchangeRate == 25505

Million == 1000000

RECURSIVE GCD(_, _)
GCD(a, b) == IF b = 0 THEN a ELSE GCD(b, a % b)

Frac(n, d) == LET g == GCD(n, d) IN [n |-> n \div g, d |-> d \div g]

Whole(n) == [n |-> n, d |-> 1]

NaNValue == [n |-> 0, d |-> 0]

IsNaN(v) == v.d = 0

\* float arithmetic: NaN propagates
Times(v, k) == IF IsNaN(v) THEN NaNValue ELSE Frac(v.n * k, v.d)

Plus(v, w) == Frac(v.n * w.d + w.n * v.d, v.d * w.d)

RECURSIVE Total(_)
Total(xs) == IF xs = <<>> THEN Whole(0) ELSE Plus(Head(xs), Total(Tail(xs)))

\* (variant: the rows without a value count in the divisor)
Mean_OverAllRows(xs) ==
    LET ys == FilterSeq(xs, {v \in Range(xs) : ~IsNaN(v)})
        t == Total(ys)
    IN IF ys = <<>> THEN NaNValue ELSE Frac(t.n, t.d * Len(xs))

\* column.mean(): the mean of the values that are not NaN, NaN when there
\* is none
Mean(xs) ==
    LET ys == FilterSeq(xs, {v \in Range(xs) : ~IsNaN(v)})
        t == Total(ys)
    IN IF ys = <<>> THEN NaNValue ELSE Frac(t.n, t.d * Len(ys))

\* round(x, 0) of a float: half to even, NaN stays NaN
Round(v) ==
    IF IsNaN(v) THEN NaNValue
    ELSE LET q == v.n \div v.d
             r == v.n % v.d
         IN IF 2 * r < v.d THEN Whole(q)
            ELSE IF 2 * r > v.d THEN Whole(q + 1)
            ELSE IF q % 2 = 0 THEN Whole(q) ELSE Whole(q + 1)

\* column.fillna(value)
FillNaN(xs, value) == [i \in DOMAIN xs |-> IF IsNaN(xs[i]) THEN value ELSE xs[i]]

\* The Salary texts of the raw records, as the site and process_job give
\* them: ranges, single values, one-sided texts, no amount
SalaryTexts ==
    { <<"15", "-", "20", "Tr", "Vnd">>,
      <<"800", "-", "1200", "USD">>,
      <<"15", "Tr", "-", "20", "Tr", "VND">>,
      <<"20", "Tr", "Vnd">>,
      <<"800", "USD">>,
      <<"len den", "20", "Tr", "VND">>,
      <<"tren", "10", "Tr", "VND">>,
      <<"canh tranh">> }

\* The tokens [A-Za-z]+ matches whole
AlphaTokens == {"Tr", "Vnd", "Usd", "Nam"}

NoGroup == "<None>"

\* The lowest index above k of a number of the text, 0 when there is none
NextNumber(text, k) ==
    LET later == {i \in DOMAIN text : i > k /\ text[i] \in NumberTokens} IN
    IF later = {} THEN 0
    ELSE CHOOSE i \in later : \A j \in later : i <= j

\* The third group after the number at j: the next token when it is made of
\* letters
UnitAfter(text, j) ==
    IF j < Len(text) /\ text[j + 1] \in AlphaTokens THEN text[j + 1] ELSE NoGroup

\* str.extract(r'([\d,]+)?[^\d]+([\d,]+)?\s*([A-Za-z]+)?'): the groups of
\* the leftmost match.  The first group is a number the text starts with;
\* [^\d]+ then takes everything up to the next number, or up to the end of
\* the text, and then the second and third groups are empty.
SalaryGroups(text) ==
    LET none == [min |-> NoGroup, max |-> NoGroup, cur |-> NoGroup] IN
    IF NextNumber(text, 0) = 0 THEN none
    ELSE IF text[1] \in NumberTokens
    THEN IF Len(text) = 1 THEN none
         ELSE LET j == NextNumber(text, 1) IN
              IF j = 0 THEN [none EXCEPT !.min = text[1]]
              ELSE [min |-> text[1], max |-> text[j], cur |-> UnitAfter(text, j)]
    ELSE LET j == NextNumber(text, 0) IN
         [min |-> NoGroup, max |-> text[j], cur |-> UnitAfter(text, j)]

\* pd.to_numeric(..., errors='coerce')
ToNumeric(group) == IF group \in NumberTokens THEN Whole(NumberOf(group)) ELSE NaNValue

\* (variant: no scaling by the unit)
TrScaled_Never(v, cur) == v

\* tr_mask = df['Currency'] == 'Tr': the row's two amounts times 1,000,000
TrScaled(v, cur) == IF cur = "Tr" THEN Times(v, Million) ELSE v

\* usd_mask = df['Salary'].str.contains('Usd'): times the exchange rate
UsdScaled(v, text) == IF Contains(text, "Usd") THEN Times(v, ExchangeRate) ELSE v

\* str.extract(r'Len Den (\d+)'): the number that follows the marker
UpToValue(text) ==
    IF \E i \in 1..(Len(text) - 1) : text[i] = "Len Den" /\ text[i + 1] \in NumberTokens
    THEN Whole(NumberOf(text[1 + CHOOSE i \in 1..(Len(text) - 1) :
                               /\ text[i] = "Len Den" /\ text[i + 1] \in NumberTokens
                               /\ \A j \in 1..(i - 1) : text[j] # "Len Den"]))
    ELSE NaNValue

\* column.fillna(round(column.mean(), 0))
Impute(xs) == FillNaN(xs, Round(Mean(xs)))

\* _clean_salary on the titled texts of a batch
SalaryColumns(texts) ==
    LET n == Len(texts)
        g == [i \in 1..n |-> SalaryGroups(texts[i])]
        min1 == [i \in 1..n |->
                   UsdScaled(TrScaled(ToNumeric(g[i].min), g[i].cur), texts[i])]
        max1 == [i \in 1..n |->
                   UsdScaled(TrScaled(ToNumeric(g[i].max), g[i].cur), texts[i])]
        \* 'Len Den': Min = the mean of Min_Salary as it stands, Max = X million
        mean_min == Mean(min1)
        min2 == [i \in 1..n |->
                   IF Contains(texts[i], "Len Den") THEN mean_min ELSE min1[i]]
        max2 == [i \in 1..n |->
                   IF Contains(texts[i], "Len Den")
                   THEN Times(UpToValue(texts[i]), Million) ELSE max1[i]]
    IN [Min_Salary |-> Impute(min2), Max_Salary |-> Impute(max2)]

\* df['Salary'].str.title(), then _clean_salary
CleanSalary(batch) ==
    LET texts == [i \in DOMAIN batch |-> TitleText(batch[i])]
        cols == SalaryColumns(texts)
    IN [i \in DOMAIN batch |->
          [Salary |-> texts[i],
           Min_Salary |-> cols.Min_Salary[i],
           Max_Salary |-> cols.Max_Salary[i]]]

SalaryInit ==
    /\ salary_batch \in UNION {[1..k -> SalaryTexts] : k \in 1..MaxBatch}
    /\ salary_pc = "start"
    /\ salary_result = <<>>

Salary ==
    /\ salary_pc = "start"
    /\ salary_result' = CleanSalary(salary_batch)
    /\ salary_pc' = "done"
    /\ UNCHANGED salary_batch

SalaryNext == Salary /\ UNCHANGED notSalaryVars

SalaryStart ==
    /\ SalaryInit
    /\ CrawlIdle
    /\ FetchIdle
    /\ CleanIdle
    /\ DetailIdle
    /\ ListingIdle
    /\ ExpiryIdle
    /\ TagIdle
    /\ CountsIdle
    /\ FilterIdle
    /\ PaginationIdle

SpecSalary == SalaryStart /\ [][SalaryNext]_vars

\* C12: a row whose raw text is '15 - 20 Tr Vnd' gets Min_Salary 15,000,000
\* and Max_Salary 20,000,000, and a row whose raw text is '800 - 1200 USD'
\* gets Min_Salary 800 * 25505 and Max_Salary 1200 * 25505, whatever the
\* other rows of the batch are.
C12_RangeScaled ==
    salary_pc = "done" =>
        \A i \in DOMAIN salary_batch :
            /\ salary_batch[i] = <<"15", "-", "20", "Tr", "Vnd">> =>
                  /\ salary_result[i].Min_Salary = [n |-> 15000000, d |-> 1]
                  /\ salary_result[i].Max_Salary = [n |-> 20000000, d |-> 1]
            /\ salary_batch[i] = <<"800", "-", "1200", "USD">> =>
                  /\ salary_result[i].Min_Salary = [n |-> 800 * 25505, d |-> 1]
                  /\ salary_result[i].Max_Salary = [n |-> 1200 * 25505, d |-> 1]

\* C12 witness: the two ranges were normalized in one batch
C12_Witness ==
    /\ salary_pc = "done"
    /\ salary_batch = << <<"800", "-", "1200", "USD">>,
                         <<"15", "-", "20", "Tr", "Vnd">> >>
    /\ salary_result[1].Max_Salary.n = 30606000
    /\ salary_result[2].Min_Salary.n = 15000000

\* The rows whose text starts with an amount: their Min_Salary is resolved
\* by the extraction and the unit scaling
ResolvedRows == {j \in DOMAIN salary_result : salary_result[j].Salary[1] \in NumberTokens}

\* The mean of Min_Salary over the resolved rows, NaN when there is none
ResolvedMeanMin ==
    LET t == Total([j \in DOMAIN salary_result |->
                      IF j \in ResolvedRows THEN salary_result[j].Min_Salary
                      ELSE Whole(0)])
    IN IF ResolvedRows = {} THEN NaNValue
       ELSE Frac(t.n, t.d * Cardinality(ResolvedRows))

\* C23: a row whose titled text is 'Len Den 20 Tr Vnd' gets Max_Salary
\* 20,000,000 and, as Min_Salary, the mean of Min_Salary over the rows of the
\* batch that start with an amount (as the unit scaling left them); rows
\* without an amount and other 'Len Den' rows do not enter that mean.
C23_UpToRule ==
    salary_pc = "done" =>
        \A i \in DOMAIN salary_result :
            salary_result[i].Salary = <<"Len Den", "20", "Tr", "Vnd">> =>
                /\ salary_result[i].Max_Salary = Whole(20 * Million)
                /\ salary_result[i].Min_Salary = ResolvedMeanMin

\* C23 witness: an 'up to 20 million' row next to a '15 - 20 Tr Vnd' row got
\* Min_Salary 15,000,000 and Max_Salary 20,000,000
C23_Witness ==
    /\ salary_pc = "done"
    /\ salary_batch = << <<"len den", "20", "Tr", "VND">>,
                         <<"15", "-", "20", "Tr", "Vnd">> >>
    /\ salary_result[1].Min_Salary = Whole(15 * Million)
    /\ salary_result[1].Max_Salary = Whole(20 * Million)

\* The factor the markers of a titled text call for
MarkerFactor(text) ==
    IF Contains(text, "Tr") THEN 1000000
    ELSE IF Contains(text, "Usd") THEN 25505 ELSE 1

\* C13 (as stated): in a text with the marker 'Tr' every parsed amount is
\* multiplied by 1,000,000 and in a text with the USD marker by the exchange
\* rate, for single-value texts as for ranges: an amount the text starts
\* with gives Min_Salary, scaled, and an amount further on gives Max_Salary,
\* scaled.
C13_MarkerScales ==
    salary_pc = "done" =>
        \A i \in DOMAIN salary_batch :
            LET text == salary_result[i].Salary
                j == NextNumber(text, 1)
            IN /\ text[1] \in NumberTokens =>
                    salary_result[i].Min_Salary =
                        [n |-> NumberOf(text[1]) * MarkerFactor(text), d |-> 1]
               /\ j # 0 =>
                    salary_result[i].Max_Salary =
                        [n |-> NumberOf(text[j]) * MarkerFactor(text), d |-> 1]

\* C13 witness: the single-value text '20 Tr Vnd' was normalized to a
\* Min_Salary of 20
C13_Witness ==
    /\ salary_pc = "done"
    /\ salary_batch = << <<"20", "Tr", "Vnd">> >>
    /\ salary_result[1].Min_Salary = [n |-> 20, d |-> 1]

\* C14 (as stated): after the salary pass every record has a Min_Salary and
\* a Max_Salary that are numbers, not null, and not negative.
C14_SalaryNonNull ==
    salary_pc = "done" =>
        \A i \in DOMAIN salary_result :
            /\ salary_result[i].Min_Salary.d # 0
            /\ salary_result[i].Max_Salary.d # 0
            /\ salary_result[i].Min_Salary.n >= 0
            /\ salary_result[i].Max_Salary.n >= 0

\* C14 witness: a batch with no amount in any row came out with both
\* fields NaN
C14_Witness ==
    /\ salary_pc = "done"
    /\ salary_batch = << <<"canh tranh">> >>
    /\ salary_result[1].Min_Salary.d = 0
    /\ salary_result[1].Max_Salary.d = 0

(***************************************************************************)
(* _clean_dates and _convert_expire_date: the Expire Date column           *)
(*                                                                         *)
(* A date is its proleptic Gregorian day number (date.toordinal()).        *)
(***************************************************************************)
MaxTokens == 2       \* tokens of an Expire Date text

\* The days date.today() may be: 2025-03-28, 2026-11-03
Todays == {739338, 739923}

\* A missing cell
MissingCell == <<"<NaN>">>

\* The tokens of an Expire Date text: the today marker, the days marker,
\* numbers, a date, a date with month 13, a hyphen, other words
ExpiryTokens == {"Hom nay", "ngay", "3", "5000000", "31-03-2025", "31-13-2025",
                 "-", "Han nop:", "unknown"}

ExpiryTexts == UNION {[1..k -> ExpiryTokens] : k \in 1..MaxTokens}

\* date(1, 1, 1) <= d <= date(9999, 12, 31)
InDateRange(ordinal) == ordinal >= 1 /\ ordinal <= 3652059

\* The tokens that hold a digit, and the number re.search(r'(\d+)') reads
\* at the start of each
DigitTokens == {"3", "5000000", "31-03-2025", "31-13-2025"}

LeadingNumber(tok) ==
    CASE tok = "3" -> 3
      [] tok = "5000000" -> 5000000
      [] tok = "31-03-2025" -> 31
      [] tok = "31-13-2025" -> 31

\* The tokens that hold a hyphen
HyphenTokens == {"-", "31-03-2025", "31-13-2025"}

Unknown == [kind |-> "unknown", ordinal |-> 0]

DateValue(ordinal) == [kind |-> "date", ordinal |-> ordinal]

Raised(exc) == [kind |-> exc, ordinal |-> 0]

\* datetime.strptime(x, "%d-%m-%Y").date(): the whole text must be the date
Strptime(text) ==
    IF text = <<"31-03-2025">> THEN DateValue(739341) ELSE Raised("ValueError")

\* self.today + timedelta(days=days)
AddDays(today, days) ==
    IF InDateRange(today + days) THEN DateValue(today + days)
    ELSE Raised("OverflowError")

\* try: ... except <excs>: return 'unknown'
Caught(r, excs) == IF r.kind \in excs THEN Unknown ELSE r

\* df['Expire Date'].fillna('unknown')
FillUnknown(cell) == IF cell = MissingCell THEN <<"unknown">> ELSE cell

\* _convert_expire_date on a string
ConvertExpireDate(text, today) ==
    IF Contains(text, "Hom nay") THEN DateValue(today)
    ELSE IF Contains(text, "ngay")
    THEN Caught(IF \E i \in DOMAIN text : text[i] \in DigitTokens
                THEN AddDays(today,
                       LeadingNumber(text[CHOOSE i \in DOMAIN text :
                           /\ text[i] \in DigitTokens
                           /\ \A j \in 1..(i - 1) : text[j] \notin DigitTokens]))
                ELSE Raised("AttributeError"),
                {"AttributeError", "ValueError"})
    ELSE IF \E i \in DOMAIN text : text[i] \in HyphenTokens
    THEN Caught(Strptime(text), {"ValueError"})
    ELSE Unknown

ExpiryInit ==
    /\ expiry_today \in Todays
    /\ expiry_in \in ExpiryTexts \cup {MissingCell}
    /\ expiry_pc = "start"
    /\ expiry_result = <<>>

\* _clean_dates on the cell
Expiry ==
    /\ expiry_pc = "start"
    /\ expiry_result' = ConvertExpireDate(FillUnknown(expiry_in), expiry_today)
    /\ expiry_pc' = "done"
    /\ UNCHANGED <<expiry_today, expiry_in>>

ExpiryNext == Expiry /\ UNCHANGED notExpiryVars

ExpiryStart ==
    /\ ExpiryInit
    /\ CrawlIdle
    /\ FetchIdle
    /\ CleanIdle
    /\ DetailIdle
    /\ ListingIdle
    /\ SalaryIdle
    /\ TagIdle
    /\ CountsIdle
    /\ FilterIdle
    /\ PaginationIdle

SpecExpiry == ExpiryStart /\ [][ExpiryNext]_vars

\* The text has a number directly followed by the days marker
HasDaysMarker(text) ==
    \E i \in 1..(Len(text) - 1) : text[i] \in {"3", "5000000"} /\ text[i + 1] = "ngay"

DaysOfMarker(text) ==
    LeadingNumber(text[CHOOSE i \in 1..(Len(text) - 1) :
                        text[i] \in {"3", "5000000"} /\ text[i + 1] = "ngay"])

\* C17 (as stated): the classification raises nothing and follows the
\* pattern order: a text with the today marker gives today; otherwise a text
\* with an 'N ngay' marker gives today + N days; otherwise a text that
\* contains a literal DD-MM-YYYY date gives that date; every other value
\* gives 'unknown'.
C17_ExpiryClassification ==
    expiry_pc = "done" =>
        /\ expiry_result.kind \in {"date", "unknown"}
        /\ IF expiry_in = MissingCell THEN expiry_result = Unknown
           ELSE IF Contains(expiry_in, "Hom nay")
           THEN expiry_result = [kind |-> "date", ordinal |-> expiry_today]
           ELSE IF HasDaysMarker(expiry_in)
           THEN expiry_result =
                    [kind |-> "date", ordinal |-> expiry_today + DaysOfMarker(expiry_in)]
           ELSE IF Contains(expiry_in, "31-03-2025")
           THEN expiry_result = [kind |-> "date", ordinal |-> 739341]
           ELSE expiry_result = Unknown

\* C17 witness: '5000000 ngay' was converted and the date addition raised
C17_Witness ==
    /\ expiry_pc = "done"
    /\ expiry_in = <<"5000000", "ngay">>
    /\ expiry_result.kind = "OverflowError"

(***************************************************************************)
(* SkillsExtractor.extract_skills: whole-word matching                     *)
(*                                                                         *)
(* A text is the sequence of its characters.                               *)
(***************************************************************************)
MaxChunks == 3       \* pieces a text is put together from

\* The pieces of the texts: words, a prefix, separators, the underscore
Chunks ==
    { <<"S", "Q", "L">>, <<"s", "q", "l">>, <<"S", "Q", "L", "i", "t", "e">>,
      <<"M", "y">>, <<"R">>, <<" ">>, <<",">>, <<"_">> }

RECURSIVE Concat(_)
Concat(pieces) == IF pieces = <<>> THEN <<>> ELSE Head(pieces) \o Concat(Tail(pieces))

TagTexts == {Concat(ps) : ps \in UNION {[1..k -> Chunks] : k \in 0..MaxChunks}}

\* str.lower() on one character
LowerChar(c) ==
    CASE c = "S" -> "s" [] c = "Q" -> "q" [] c = "L" -> "l"
      [] c = "M" -> "m" [] c = "R" -> "r" [] c = "A" -> "a"
      [] c = "B" -> "b" [] c = "D" -> "d" [] c = "P" -> "p"
      [] c = "T" -> "t" [] OTHER -> c

Lower(text) == [i \in DOMAIN text |-> LowerChar(text[i])]

\* \w
IsWordChar(c) == c \notin {" ", ","}

\* (variant: no word boundary is asked for)
WordBoundary_Any(text, p) == TRUE

\* \b between the characters p - 1 and p of the text
WordBoundary(text, p) ==
    LET before == p > 1 /\ IsWordChar(text[p - 1])
        after == p <= Len(text) /\ IsWordChar(text[p])
    IN before # after

\* rf'\b{phrase}\b' matches at position i
MatchesAt(phrase, text, i) ==
    /\ i + Len(phrase) - 1 <= Len(text)
    /\ SubSeq(text, i, i + Len(phrase) - 1) = phrase
    /\ WordBoundary(text, i)
    /\ WordBoundary(text, i + Len(phrase))

RECURSIVE FindAll(_, _, _)
\* len(re.findall(...)): the matches from position i on, left to right,
\* each search going on after the previous match
FindAll(phrase, text, i) ==
    IF i > Len(text) THEN 0
    ELSE IF MatchesAt(phrase, text, i)
    THEN 1 + FindAll(phrase, text, i + Len(phrase))
    ELSE FindAll(phrase, text, i + 1)

\* A vocabulary list as _load_hard_skills returns it, an entry twice
HardSkills ==
    << <<"S", "Q", "L">>, <<"S", "Q", "L", "i", "t", "e">>,
       <<"M", "y", "S", "Q", "L">>, <<"R">>, <<"S", "Q", "L">> >>

RECURSIVE SkillDict(_)
\* {skill.lower(): skill for skill in skills}: a key is kept where it first
\* came and holds the last skill given for it
SkillDict(skills) ==
    IF skills = <<>> THEN <<>>
    ELSE LET init == SkillDict(SubSeq(skills, 1, Len(skills) - 1))
             last == skills[Len(skills)]
         IN IF \E k \in DOMAIN init : init[k].key = Lower(last)
            THEN [k \in DOMAIN init |->
                    IF init[k].key = Lower(last)
                    THEN [key |-> Lower(last), skill |-> last] ELSE init[k]]
            ELSE Append(init, [key |-> Lower(last), skill |-> last])

RECURSIVE Repeat(_, _)
\* [x] * n
Repeat(x, n) == IF n = 0 THEN <<>> ELSE <<x>> \o Repeat(x, n - 1)

RECURSIVE ExtendAll(_, _)
\* The loop over skill_dict.items()
ExtendAll(entries, processed_text) ==
    IF entries = <<>> THEN <<>>
    ELSE Repeat(Head(entries).skill, FindAll(Head(entries).key, processed_text, 1))
         \o ExtendAll(Tail(entries), processed_text)

\* extract_skills with no translator: an empty text gives no skill
ExtractSkills(text, skill_dict) ==
    IF text = <<>> THEN <<>> ELSE ExtendAll(skill_dict, Lower(text))

TagInit ==
    /\ tag_text \in TagTexts
    /\ tag_pc = "start"
    /\ found_skills = <<>>

Tag ==
    /\ tag_pc = "start"
    /\ found_skills' = ExtractSkills(tag_text, SkillDict(HardSkills))
    /\ tag_pc' = "done"
    /\ UNCHANGED tag_text

TagNext == Tag /\ UNCHANGED notTagVars

TagStart ==
    /\ TagInit
    /\ CrawlIdle
    /\ FetchIdle
    /\ CleanIdle
    /\ DetailIdle
    /\ ListingIdle
    /\ SalaryIdle
    /\ ExpiryIdle
    /\ CountsIdle
    /\ FilterIdle
    /\ PaginationIdle

SpecTag == TagStart /\ [][TagNext]_vars

\* The positions of the text where the phrase stands, whatever the case of
\* the letters, with no letter, digit or underscore before it or after it
DelimitedAt(phrase, text) ==
    {i \in 1..Len(text) :
        /\ i + Len(phrase) - 1 <= Len(text)
        /\ \A k \in 1..Len(phrase) :
              LowerChar(text[i + k - 1]) = LowerChar(phrase[k])
        /\ i = 1 \/ text[i - 1] \in {" ", ","}
        /\ i + Len(phrase) > Len(text) \/ text[i + Len(phrase)] \in {" ", ","}}

TimesFound(skill) ==
    Cardinality({i \in DOMAIN found_skills : found_skills[i] = skill})

\* C18: extract_skills registers a vocabulary entry once for each occurrence
\* of its phrase that is delimited by non-word characters, in any case of
\* the letters, and never for an occurrence inside a longer word; nothing
\* but vocabulary entries is registered.
C18_WholeWord ==
    tag_pc = "done" =>
        /\ \A i \in DOMAIN HardSkills :
              TimesFound(HardSkills[i]) =
                  Cardinality(DelimitedAt(HardSkills[i], tag_text))
        /\ \A i \in DOMAIN found_skills : found_skills[i] \in Range(HardSkills)

\* C18 witness: the text 'SQLite SQL' registered SQLite once and SQL once
C18_Witness ==
    /\ tag_pc = "done"
    /\ tag_text = <<"S", "Q", "L", "i", "t", "e", " ", "S", "Q", "L">>
    /\ found_skills = << <<"S", "Q", "L">>, <<"S", "Q", "L", "i", "t", "e">> >>

(***************************************************************************)
(* SkillsExtractor.get_skills_counts: the skill-count table                *)
(***************************************************************************)
MaxSkills == 2       \* skills in the list of one record

SkillNames == {"SQL", "R", "Python"}

SkillLists == UNION {[1..k -> SkillNames] : k \in 0..MaxSkills}

\* [skill for skills_list in df[skills_column] for skill in skills_list]
AllSkills(column) == Concat(column)

\* (variant: every skill counts once)
CountOf_Once(skill, all_skills) == 1

\* Counter(all_skills)[skill]
CountOf(skill, all_skills) ==
    Cardinality({i \in DOMAIN all_skills : all_skills[i] = skill})

RECURSIVE FirstSeen(_)
\* The keys of Counter(all_skills), in the order they were first met
FirstSeen(all_skills) ==
    IF all_skills = <<>> THEN <<>>
    ELSE LET init == FirstSeen(SubSeq(all_skills, 1, Len(all_skills) - 1))
             last == all_skills[Len(all_skills)]
         IN IF last \in Range(init) THEN init ELSE Append(init, last)

\* Counter(all_skills).items()
CounterItems(all_skills) ==
    LET keys == FirstSeen(all_skills) IN
    [k \in DOMAIN keys |->
        [Skill |-> keys[k], Count |-> CountOf(keys[k], all_skills)]]

Arrangements(n) ==
    {f \in [1..n -> 1..n] : \A i, j \in 1..n : i # j => f[i] # f[j]}

Descending(rows) ==
    \A i, j \in DOMAIN rows : i < j => rows[i].Count >= rows[j].Count

\* sort_values(by="Count", ascending=False) with the default kind, quicksort,
\* which is not stable: any arrangement of the rows by descending Count
SortedByCount(rows) ==
    {sorted \in {[k \in DOMAIN rows |-> rows[f[k]]] : f \in Arrangements(Len(rows))} :
        Descending(sorted)}

CountsInit ==
    /\ skills_column \in UNION {[1..k -> SkillLists] : k \in 0..MaxBatch}
    /\ counts_pc = "start"
    /\ skill_counts = <<>>
    /\ counts_table = <<>>

\* all_skills = [...]; skill_counts = Counter(all_skills)
CountSkills ==
    /\ counts_pc = "start"
    /\ skill_counts' = CounterItems(AllSkills(skills_column))
    /\ counts_pc' = "counted"
    /\ UNCHANGED <<skills_column, counts_table>>

\* return pd.DataFrame(skill_counts.items(), ...).sort_values(...)
SortCounts ==
    /\ counts_pc = "counted"
    /\ counts_table' \in SortedByCount(skill_counts)
    /\ counts_pc' = "done"
    /\ UNCHANGED <<skills_column, skill_counts>>

CountsNext ==
    \/ CountSkills /\ UNCHANGED notCountsVars
    \/ SortCounts /\ UNCHANGED notCountsVars

CountsStart ==
    /\ CountsInit
    /\ CrawlIdle
    /\ FetchIdle
    /\ CleanIdle
    /\ DetailIdle
    /\ ListingIdle
    /\ SalaryIdle
    /\ ExpiryIdle
    /\ TagIdle
    /\ FilterIdle
    /\ PaginationIdle

SpecCounts == CountsStart /\ [][CountsNext]_vars

\* The occurrences of a name over all the lists of the column
Occurrences(skill) ==
    Cardinality({p \in (DOMAIN skills_column) \X (1..MaxSkills + 1) :
                    /\ p[2] <= Len(skills_column[p[1]])
                    /\ skills_column[p[1]][p[2]] = skill})

\* The position of the first occurrence of a name in the flattened lists
FirstAt(skill) ==
    LET all == Concat(skills_column) IN
    CHOOSE i \in DOMAIN all :
        all[i] = skill /\ \A j \in 1..(i - 1) : all[j] # skill

RECURSIVE SumOfCounts(_)
SumOfCounts(rows) ==
    IF rows = <<>> THEN 0 ELSE rows[1].Count + SumOfCounts(Tail(rows))

\* One row per distinct name of the lists, with its number of occurrences
\* (the Counts add up to the number of matches), rows by descending Count
CountTableRight ==
    /\ SumOfCounts(counts_table) = Len(Concat(skills_column))
    /\ \A i, j \in DOMAIN counts_table :
          i # j => counts_table[i].Skill # counts_table[j].Skill
    /\ {counts_table[i].Skill : i \in DOMAIN counts_table}
          = {s \in SkillNames : Occurrences(s) > 0}
    /\ \A i \in DOMAIN counts_table :
          /\ counts_table[i].Count = Occurrences(counts_table[i].Skill)
          /\ counts_table[i].Count >= 1
    /\ \A i \in 1..(Len(counts_table) - 1) :
          counts_table[i].Count >= counts_table[i + 1].Count

\* C19 (as stated): the table has one row per distinct name, Count is the
\* number of occurrences, rows are by descending Count, and rows of equal
\* Count are in the order in which their names were first met.
C19_StableTies ==
    counts_pc = "done" =>
        /\ CountTableRight
        /\ \A i, j \in DOMAIN counts_table :
              (i < j /\ counts_table[i].Count = counts_table[j].Count) =>
                  FirstAt(counts_table[i].Skill) < FirstAt(counts_table[j].Skill)

\* C19 (amended): the table has one row per distinct name, Count is the
\* number of occurrences of the name over all lists, and rows are by
\* descending Count; the order of rows of equal Count is not fixed.
C19_CountTable == counts_pc = "done" => CountTableRight

\* C19 witness: a name met later but more often came out first
C19_Witness ==
    /\ counts_pc = "done"
    /\ skills_column = << <<"R", "SQL">>, <<"SQL">> >>
    /\ counts_table = <<[Skill |-> "SQL", Count |-> 2], [Skill |-> "R", Count |-> 1]>>

(***************************************************************************)
(* JobDataCleaner.filter_data_jobs: the data-job keyword filter            *)
(***************************************************************************)
\* Some of the keywords of the list
Keywords ==
    { <<"D", "a", "t", "a">>,
      <<"D", "a", "t", "a", "b", "a", "s", "e">>,
      <<"A", "i">>,
      <<"B", "i">>,
      <<"P", "o", "w", "e", "r", " ", "B", "i">> }

\* A Job Title cell holding a text
TitleCell(text) == [na |-> FALSE, text |-> text]

\* A missing Job Title cell
MissingTitle == [na |-> TRUE, text |-> <<>>]

\* Job Title cells: Big Data, DATA, Database, Bike, Sales, Sales Ai, Aide, Power Bi, and a missing cell
JobTitles ==
    { TitleCell(<<"B", "i", "g", " ", "D", "a", "t", "a">>),
      TitleCell(<<"D", "A", "T", "A">>),
      TitleCell(<<"D", "a", "t", "a", "b", "a", "s", "e">>),
      TitleCell(<<"B", "i", "k", "e">>),
      TitleCell(<<"S", "a", "l", "e", "s">>),
      TitleCell(<<"S", "a", "l", "e", "s", " ", "A", "i">>),
      TitleCell(<<"A", "i", "d", "e">>),
      TitleCell(<<"P", "o", "w", "e", "r", " ", "B", "i">>),
      MissingTitle }

\* The frames of up to MaxBatch rows, each row with its index label
TitleFrames ==
    UNION {{[i \in 1..k |-> [index |-> i, title |-> cells[i]]] : cells \in [1..k -> JobTitles]} :
              k \in 0..MaxBatch}

\* str.contains(pattern, case=False, na=False, regex=True) on one cell
TitleContains(cell) ==
    /\ ~cell.na
    /\ \E keyword \in Keywords : \E i \in 1..Len(cell.text) :
          MatchesAt(Lower(keyword), Lower(cell.text), i)

KeepsRow(row) == TitleContains(row.title)

\* (variant: the first selected row is lost)
FilterDataJobs_DropFirst(df) ==
    LET kept == SelectSeq(df, KeepsRow) IN IF kept = <<>> THEN <<>> ELSE Tail(kept)

\* df[mask]
FilterDataJobs(df) == SelectSeq(df, KeepsRow)

FilterInit ==
    /\ filter_df \in TitleFrames
    /\ filter_pc = "start"
    /\ filtered_once = <<>>
    /\ filtered_twice = <<>>

FilterOnce ==
    /\ filter_pc = "start"
    /\ filtered_once' = FilterDataJobs(filter_df)
    /\ filter_pc' = "once"
    /\ UNCHANGED <<filter_df, filtered_twice>>

FilterAgain ==
    /\ filter_pc = "once"
    /\ filtered_twice' = FilterDataJobs(filtered_once)
    /\ filter_pc' = "twice"
    /\ UNCHANGED <<filter_df, filtered_once>>

FilterNext ==
    \/ FilterOnce /\ UNCHANGED notFilterVars
    \/ FilterAgain /\ UNCHANGED notFilterVars

FilterStart ==
    /\ FilterInit
    /\ CrawlIdle
    /\ FetchIdle
    /\ CleanIdle
    /\ DetailIdle
    /\ ListingIdle
    /\ SalaryIdle
    /\ ExpiryIdle
    /\ TagIdle
    /\ CountsIdle
    /\ PaginationIdle

SpecFilter == FilterStart /\ [][FilterNext]_vars

\* C20: filtering the result of the data-job keyword filter again removes
\* no row: the second result is the first, the same rows in the same order.
C20_FilterIdempotent == filter_pc = "twice" => filtered_twice = filtered_once

\* C20 witness: the first pass removed 'Bike' and kept 'DATA', the second
\* pass kept what the first had kept
C20_Witness ==
    /\ filter_pc = "twice"
    /\ Len(filter_df) = 2
    /\ filter_df[1].title = TitleCell(<<"B", "i", "k", "e">>)
    /\ filter_df[2].title = TitleCell(<<"D", "A", "T", "A">>)
    /\ filtered_once = <<filter_df[2]>>
    /\ filtered_twice = filtered_once

(***************************************************************************)
(* generate_pagination_urls                                                *)
(***************************************************************************)
MaxPageArg == 3      \* the greatest max_page

\* A URL is the sequence of its pieces: the host part, the words of the
\* search slug, "-" between them, a page number, "vi", ".html"
ListingHost == "https://careerviet.vn/viec-lam/"

\* The slugs of some searches: data, thoi trang, trang diem, ke toan, it,
\* marketing
SearchSlugs ==
    { <<"data", "-", "k">>,
      <<"thoi", "-", "trang", "-", "k">>,
      <<"trang", "-", "diem", "-", "k">>,
      <<"ke", "-", "toan", "-", "k">>,
      <<"it", "-", "k">>,
      <<"marketing", "-", "k">> }

PageNumbers == <<"1", "2", "3", "4", "5", "6">>

\* f"{page}"
PageText(k) == PageNumbers[k]

\* '-vi.html'
ViHtml == <<"-", "vi", ".html">>

\* The listing URL of a search: its first page, or its page k
ListingUrl(slug, k) ==
    IF k = 1 THEN <<ListingHost>> \o slug \o ViHtml
    ELSE <<ListingHost>> \o slug \o <<"-", "trang", "-", PageText(k)>> \o ViHtml

\* sub occurs in text at position i
OccursAt(sub, text, i) ==
    /\ i >= 1 /\ i + Len(sub) - 1 <= Len(text)
    /\ SubSeq(text, i, i + Len(sub) - 1) = sub

\* sub in text
Occurs(sub, text) == \E i \in 1..Len(text) : OccursAt(sub, text, i)

\* text.endswith(sub)
EndsWith(text, sub) == OccursAt(sub, text, Len(text) - Len(sub) + 1)

\* text.split(sep)[0]
SplitFirst(text, sep) ==
    IF ~Occurs(sep, text) THEN text
    ELSE LET i == CHOOSE i \in 1..Len(text) :
                      /\ OccursAt(sep, text, i)
                      /\ \A j \in 1..(i - 1) : ~OccursAt(sep, text, j)
         IN SubSeq(text, 1, i - 1)

\* The positions where -trang-\d+-vi\.html matches
TrangMatches(text) ==
    {i \in 1..Len(text) :
        \E d \in Range(PageNumbers) :
            OccursAt(<<"-", "trang", "-", d>> \o ViHtml, text, i)}

\* re.search(r'(.*)-trang-\d+(-vi\.html)', base_url): group 1, the greedy
\* prefix, ends at the last match of the rest
TrangPrefix(text) ==
    LET i == CHOOSE i \in TrangMatches(text) : \A j \in TrangMatches(text) : j <= i
    IN SubSeq(text, 1, i - 1)

\* f"{base_part}-trang-{page}-vi.html"
PageUrl(part, k) == part \o <<"-", "trang", "-", PageText(k)>> \o ViHtml

PaginationInit ==
    /\ search \in [slug : SearchSlugs, on_page : 1..MaxPageArg]
    /\ base_url = ListingUrl(search.slug, search.on_page)
    /\ max_page \in 1..MaxPageArg
    /\ pagination_pc = "start"
    /\ base_part = <<>>
    /\ page = 0
    /\ urls = <<>>

\* urls = [base_url] and the choice of the branch
PaginationBranch ==
    /\ pagination_pc = "start"
    /\ IF EndsWith(base_url, ViHtml) /\ ~Occurs(<<"trang", "-">>, base_url)
       THEN /\ base_part' = SplitFirst(base_url, ViHtml)
            /\ urls' = <<base_url>>
            /\ pagination_pc' = "loop"
       ELSE IF Occurs(<<"trang", "-">>, base_url) /\ TrangMatches(base_url) # {}
       THEN /\ base_part' = TrangPrefix(base_url)
            /\ urls' = <<TrangPrefix(base_url) \o ViHtml>>
            /\ pagination_pc' = "loop"
       ELSE /\ urls' = <<base_url>>
            /\ pagination_pc' = "returned"
            /\ UNCHANGED base_part
    /\ page' = 2
    /\ UNCHANGED <<search, base_url, max_page>>

\* for page in range(2, max_page + 1): urls.append(page_url)
PaginationAppend ==
    /\ pagination_pc = "loop"
    /\ page <= max_page
    /\ urls' = Append(urls, PageUrl(base_part, page))
    /\ page' = page + 1
    /\ UNCHANGED <<search, base_url, max_page, pagination_pc, base_part>>

\* return urls
PaginationReturn ==
    /\ pagination_pc = "loop"
    /\ page > max_page
    /\ pagination_pc' = "returned"
    /\ UNCHANGED <<search, base_url, max_page, base_part, page, urls>>

PaginationNext ==
    \/ PaginationBranch /\ UNCHANGED notPaginationVars
    \/ PaginationAppend /\ UNCHANGED notPaginationVars
    \/ PaginationReturn /\ UNCHANGED notPaginationVars

PaginationStart ==
    /\ PaginationInit
    /\ CrawlIdle
    /\ FetchIdle
    /\ CleanIdle
    /\ DetailIdle
    /\ ListingIdle
    /\ SalaryIdle
    /\ ExpiryIdle
    /\ TagIdle
    /\ CountsIdle
    /\ FilterIdle

SpecPagination == PaginationStart /\ [][PaginationNext]_vars

\* C25: for the first-page URL or a page-N URL of a search and every
\* max_page >= 1, the list returned holds exactly max_page URLs, the k-th
\* being the URL of page k of the search (page 1 without a page index), all
\* distinct; so the list is the same whichever page of the search was given.
C25_AllPagesInOrder ==
    pagination_pc = "returned" =>
        /\ Len(urls) = max_page
        /\ \A k \in 1..Len(urls) : urls[k] = ListingUrl(search.slug, k)
        /\ \A j, k \in 1..Len(urls) : j # k => urls[j] # urls[k]

\* C25 witness: the first page of the search 'thoi trang' was given with
\* max_page = 3 and the list returned holds that URL alone
C25_Witness ==
    /\ pagination_pc = "returned"
    /\ search = [slug |-> <<"thoi", "-", "trang", "-", "k">>, on_page |-> 1]
    /\ max_page = 3
    /\ urls = <<base_url>>

(***************************************************************************)
(* get_job_details: the detail extractor                                   *)
(***************************************************************************)
NotAvailable == Text("Not available", 13, 12)
ErrorRetrieving == Text("Error retrieving: <error>", 25, 20)
DescUnavailable ==
    Text("Description unavailable or could not be extracted properly", 58, 51)
ReqIncluded == Text("Requirements included in job description", 40, 36)
ReqUnavailable ==
    Text("Requirements unavailable or could not be extracted properly", 59, 52)

DetailFields == {"Job Description", "Job Requirements", "Job Level",
                 "Job Type", "Experience", "Industry"}

MetaFields == {"Job Level", "Job Type", "Experience", "Industry"}

Tiers == 1..3

\* What a tier finds for a field on the page: nothing, a label with an empty
\* value, a label with a value
Cells == {"absent", "empty", "value"}

\* The value a tier reads from a cell it found
TierValue(tier, cell) ==
    IF cell = "empty" THEN EmptyString
    ELSE CASE tier = 1 -> Text("tier 1 value", 6, 6)
           [] tier = 2 -> Text("tier 2 value", 6, 6)
           [] tier = 3 -> Text("tier 3 value", 6, 6)

\* _extract_job_metadata for one field, given whether the second and third
\* tiers run
MetaValue(cells, gate) ==
    LET v1 == IF cells[1] # "absent" THEN TierValue(1, cells[1]) ELSE NotAvailable
        \* tier 2 assigns the cell of a matching row, whatever the field holds
        v2 == IF gate /\ cells[2] # "absent" THEN TierValue(2, cells[2]) ELSE v1
        \* tier 3 assigns only a field that is still "Not available"
        v3 == IF gate /\ cells[3] # "absent" /\ v2 = NotAvailable
              THEN TierValue(3, cells[3]) ELSE v2
    IN v3

\* _extract_job_metadata: tiers 2 and 3 run when tier 1 left a field
\* "Not available"
ExtractJobMetadata(meta) ==
    LET gate == \E f \in MetaFields : meta[f][1] = "absent" IN
    [f \in MetaFields |-> MetaValue(meta[f], gate)]

RECURSIVE DirectSelectorText(_, _, _)
\* The loop over the selectors: the text of each element found replaces the
\* content, and the loop stops at the first text longer than min
DirectSelectorText(texts, content, min) ==
    IF texts = <<>> THEN content
    ELSE IF Head(texts).len > min THEN Head(texts)
    ELSE DirectSelectorText(Tail(texts), Head(texts), min)

\* if not content or len(content) < min
TooShort(content, min) == content = EmptyString \/ content.len < min

\* if not content or len(re.findall(r'[a-zA-Z]', content)) < 20
NoSubstance(content) == content = EmptyString \/ content.alpha < 20

\* _extract_job_description
ExtractJobDescription(doc) ==
    LET c1 == DirectSelectorText(doc.desc_direct, EmptyString, 100)
        c2 == IF TooShort(c1, 100) /\ doc.desc_heading # EmptyString
              THEN doc.desc_heading ELSE c1
        c3 == IF TooShort(c2, 100) /\ doc.desc_blocks # EmptyString
              THEN doc.desc_blocks ELSE c2
    IN IF NoSubstance(c3) THEN DescUnavailable ELSE c3

\* _extract_job_requirements
ExtractJobRequirements(doc, description) ==
    LET c1 == DirectSelectorText(doc.req_direct, EmptyString, 50)
        c2 == IF TooShort(c1, 50) /\ doc.req_heading # EmptyString
              THEN doc.req_heading ELSE c1
        \* the description as extracted holds the page's own text
        own == description # DescUnavailable
        c3 == IF c2 = EmptyString /\ own /\ doc.req_in_desc = "section"
              THEN Text("requirements section of the description", 60, 45)
              ELSE c2
    IN IF NoSubstance(c3)
       THEN IF own /\ doc.req_in_desc # "none" THEN ReqIncluded ELSE ReqUnavailable
       ELSE c3

\* (variant: the two texts are left empty)
EmptyJobDetails_Blank(msg) ==
    [f \in DetailFields |->
        IF f \in {"Job Description", "Job Requirements"} THEN EmptyString
        ELSE NotAvailable]

\* _get_empty_job_details
EmptyJobDetails(msg) ==
    [f \in DetailFields |->
        IF f \in {"Job Description", "Job Requirements"} THEN msg ELSE NotAvailable]

\* The try block of get_job_details on a page that was fetched
ExtractDetails(doc) ==
    LET meta == ExtractJobMetadata(doc.meta)
        description == ExtractJobDescription(doc)
    IN [f \in DetailFields |->
          CASE f = "Job Description" -> description
            [] f = "Job Requirements" -> ExtractJobRequirements(doc, description)
            [] OTHER -> meta[f]]

\* (variant: no except clause around the extraction)
GetJobDetails_NoCatch(in) ==
    IF in.soup = "null" THEN [raised |-> FALSE, value |-> EmptyJobDetails(CouldNotLoad)]
    ELSE IF in.raises # "none" THEN [raised |-> TRUE, value |-> <<>>]
    ELSE [raised |-> FALSE, value |-> ExtractDetails(in.doc)]

\* get_job_details
GetJobDetails(in) ==
    IF in.soup = "null" THEN [raised |-> FALSE, value |-> EmptyJobDetails(CouldNotLoad)]
    ELSE IF in.raises # "none"
    THEN [raised |-> FALSE, value |-> EmptyJobDetails(ErrorRetrieving)]
    ELSE [raised |-> FALSE, value |-> ExtractDetails(in.doc)]

\* ---- the detail pages ----
NoMeta == [f \in MetaFields |-> [t \in Tiers |-> "absent"]]

MetaHits(meta) ==
    Cardinality({ft \in MetaFields \X Tiers : meta[ft[1]][ft[2]] # "absent"})

\* The metadata of a page with at most MaxHits labelled elements
Metas == {m \in [MetaFields -> [Tiers -> Cells]] : MetaHits(m) <= MaxHits}

DescDirectTexts == {Text("direct", 30, 10), Text("direct", 60, 50),
                    Text("direct", 100, 80), Text("direct", 150, 120)}
DescHeadingTexts == {EmptyString, Text("heading", 60, 50), Text("heading", 150, 120)}
DescBlockTexts == {EmptyString, Text("blocks", 200, 160)}
ReqDirectTexts == {Text("direct", 30, 10), Text("direct", 60, 50)}
ReqHeadingTexts == {EmptyString, Text("heading", 60, 50)}

\* A page with nothing the extractor looks for
EmptyDoc ==
    [meta |-> NoMeta, desc_direct |-> <<>>, desc_heading |-> EmptyString,
     desc_blocks |-> EmptyString, req_direct |-> <<>>,
     req_heading |-> EmptyString, req_in_desc |-> "none"]

\* The metadata and the texts are extracted independently: the pages vary
\* the one or the other
Docs ==
    {[EmptyDoc EXCEPT !.meta = m] : m \in Metas}
    \cup
    [meta : {NoMeta},
     desc_direct : SeqsUpTo(DescDirectTexts, 2),
     desc_heading : DescHeadingTexts,
     desc_blocks : DescBlockTexts,
     req_direct : SeqsUpTo(ReqDirectTexts, 1),
     req_heading : ReqHeadingTexts,
     req_in_desc : {"none", "marker", "section"}]

\* The fetch returned None; or an extraction step raised; or the page is read
DetailInputs ==
    [soup : {"null"}, raises : {"none"}, doc : {EmptyDoc}]
    \cup [soup : {"doc"}, raises : {"metadata", "description", "requirements"},
          doc : {EmptyDoc}]
    \cup [soup : {"doc"}, raises : {"none"}, doc : Docs]

DetailInit ==
    /\ detail_in \in DetailInputs
    /\ detail_pc = "start"
    /\ detail_result = [raised |-> FALSE, value |-> <<>>]

Detail ==
    /\ detail_pc = "start"
    /\ detail_result' = GetJobDetails(detail_in)
    /\ detail_pc' = "returned"
    /\ UNCHANGED detail_in

DetailNext == Detail /\ UNCHANGED notDetailVars

\* The state the detail specification starts in
DetailStart ==
    /\ DetailInit
    /\ CrawlIdle
    /\ FetchIdle
    /\ CleanIdle
    /\ ListingIdle
    /\ SalaryIdle
    /\ ExpiryIdle
    /\ TagIdle
    /\ CountsIdle
    /\ FilterIdle
    /\ PaginationIdle

SpecDetail == DetailStart /\ [][DetailNext]_vars

\* C9: get_job_details raises nothing and returns a mapping with exactly the
\* six fields, none of them None: each holds a string.
C9_DetailTotal ==
    detail_pc = "returned" =>
        /\ ~detail_result.raised
        /\ DOMAIN detail_result.value = DetailFields
        /\ \A f \in DetailFields :
              /\ detail_result.value[f] # PyNone
              /\ detail_result.value[f].len >= 0

\* C9 witness: an extraction step raised and the six fields hold sentinels
C9_Witness ==
    /\ detail_pc = "returned"
    /\ detail_in.raises = "description"
    /\ detail_result.value["Job Description"] = ErrorRetrieving
    /\ detail_result.value["Industry"] = NotAvailable


\* The tiers that found the field on the page
ResolvingTiers(meta, f) == {t \in Tiers : meta[f][t] # "absent"}

\* The value of the earliest tier that found the field
EarliestTierValue(meta, f) ==
    IF ResolvingTiers(meta, f) = {} THEN NotAvailable
    ELSE LET t == CHOOSE t \in ResolvingTiers(meta, f) :
                      \A u \in ResolvingTiers(meta, f) : t <= u
         IN TierValue(t, meta[f][t])

\* C22: on every page that is read, each of the four metadata fields holds
\* the value of the earliest tier that found it ("Not available" when none
\* did): a later tier never overwrites an earlier one.
C22_EarlierTierWins ==
    (detail_pc = "returned" /\ detail_in.soup = "doc" /\ detail_in.raises = "none") =>
        \A f \in MetaFields :
            detail_result.value[f] = EarliestTierValue(detail_in.doc.meta, f)

\* C22 witness: tier 1 read the job level, the job type was still missing, a
\* table row also names the level, and the level returned is the table's
C22_Witness ==
    /\ detail_pc = "returned" /\ detail_in.soup = "doc" /\ detail_in.raises = "none"
    /\ detail_in.doc.meta["Job Level"] = <<"value", "value", "absent">>
    /\ detail_in.doc.meta["Job Type"] = <<"absent", "absent", "absent">>
    /\ detail_result.value["Job Level"] = TierValue(2, "value")
    /\ detail_result.value["Job Level"] # TierValue(1, "value")


\* C26: the description returned for a page that is read is a
\* direct-selector text of at least 100 characters, or the heading-bounded
\* content, or the text of the longest blocks, or the 'unavailable' sentinel;
\* never a direct-selector text of fewer than 100 characters.
C26_ShortDirectRejected ==
    (detail_pc = "returned" /\ detail_in.soup = "doc" /\ detail_in.raises = "none") =>
        LET doc == detail_in.doc
            description == detail_result.value["Job Description"]
        IN \/ description \in Range(doc.desc_direct) /\ description.len >= 100
           \/ doc.desc_heading # EmptyString /\ description = doc.desc_heading
           \/ doc.desc_blocks # EmptyString /\ description = doc.desc_blocks
           \/ description = DescUnavailable

\* C26 witness: the page has one direct-selector element, of 60 characters,
\* no description heading and no text block, and those 60 characters are the
\* description returned
C26_Witness ==
    /\ detail_pc = "returned" /\ detail_in.soup = "doc" /\ detail_in.raises = "none"
    /\ detail_in.doc.desc_direct = <<Text("direct", 60, 50)>>
    /\ detail_in.doc.desc_heading = EmptyString
    /\ detail_in.doc.desc_blocks = EmptyString
    /\ detail_result.value["Job Description"] = Text("direct", 60, 50)

\* C28: the description and the requirements get_job_details returns, which
\* process_job copies into the record, always pass the test of the validity
\* pass: they are non-empty strings, the sentinel 'Could not load job
\* details' when the page could not be fetched and the 'Error retrieving'
\* text when reading it raised.
C28_NeverDropped ==
    detail_pc = "returned" =>
        LET value == detail_result.value IN
        /\ ~detail_result.raised
        /\ IsValidJob([description |-> value["Job Description"],
                       requirements |-> value["Job Requirements"]])
        /\ detail_in.soup = "null" =>
              /\ value["Job Description"] = CouldNotLoad
              /\ value["Job Requirements"] = CouldNotLoad
        /\ (detail_in.soup = "doc" /\ detail_in.raises # "none") =>
              /\ value["Job Description"] = ErrorRetrieving
              /\ value["Job Requirements"] = ErrorRetrieving

\* C28 witness: the detail page could not be fetched and the two texts are
\* the sentinel, which the validity pass accepts
C28_Witness ==
    /\ detail_pc = "returned"
    /\ detail_in.soup = "null"
    /\ detail_result.value["Job Requirements"] = CouldNotLoad
    /\ NonEmptyStr(detail_result.value["Job Requirements"])

(***************************************************************************)
(* process_job and get_jobs_from_page: the listing extractor               *)
(***************************************************************************)
\* The sub-elements of a listing item that process_job looks up, the link
\* apart
SubElements == {"title", "company", "location", "salary", "time"}

\* The a.job_link of an item: no such tag, a tag without href, or a tag
\* with a site-relative href
Hrefs == {"/1", "/2"}
LinkTags == {"absent", "nohref"} \cup Hrefs

CompanyNotFound == Text("Company not found", 17, 15)
TitleNotFound == Text("Title not found", 15, 13)
LinkNotFound == Text("Link not found", 14, 12)
LocationNotFound == Text("Location not found", 18, 16)
SalaryNotFound == Text("Salary not found", 16, 14)
UpdateTimeNotFound == Text("Update time not found", 21, 18)
ExpireDateNotFound == Text("Expire date not found", 21, 18)

ListingFields == {"Job Title", "Company", "Location", "Salary", "Date",
                  "Job Link", "Expire Date", "Welfare"}

\* link_tag.get('href') if link_tag else <default>
HrefOf(item, default) ==
    CASE item.link = "absent" -> default
      [] item.link = "nohref" -> PyNone
      [] OTHER -> Text(item.link, 2, 0)

\* if link.startswith('/'): link = "https://careerviet.vn" + link
AbsoluteLink(link) ==
    IF link.src \in Hrefs THEN Text("https://careerviet.vn" \o link.src, 23, 17)
    ELSE link

\* The statement of process_job that raises on this item, "none" if none does
ProcessJobRaises(item) ==
    CASE "title" \in item.absent -> "AttributeError"  \* title_tag.text, None
      [] item.link = "nohref" -> "AttributeError"      \* link.startswith, None
      [] item.link = "absent" -> "KeyError"            \* job_details = {}
      [] OTHER -> "none"

\* The dict process_job builds
JobData(item, details) ==
    [f \in ListingFields \cup DetailFields |->
       CASE f = "Job Title" -> Text("title", 20, 18)
         [] f = "Company" ->
              IF "company" \notin item.absent THEN Text("company", 12, 10)
              ELSE IF "title" \notin item.absent THEN CompanyNotFound
              ELSE TitleNotFound
         [] f = "Location" ->
              IF "location" \notin item.absent THEN Text("location", 8, 8)
              ELSE LocationNotFound
         [] f = "Salary" ->
              IF "salary" \notin item.absent THEN Text("salary", 15, 5)
              ELSE SalaryNotFound
         [] f = "Date" ->
              IF "time" \notin item.absent THEN Text("update time", 10, 0)
              ELSE UpdateTimeNotFound
         [] f = "Expire Date" ->
              IF "time" \notin item.absent THEN Text("expire time", 10, 0)
              ELSE ExpireDateNotFound
         [] f = "Job Link" -> AbsoluteLink(HrefOf(item, LinkNotFound))
         [] f = "Welfare" -> Text("welfare list", 0, 0)
         [] OTHER -> details[f]]

\* (variant: a missing title or link yields its sentinel)
ProcessJob_Sentinels(item, detail_input) ==
    [ok |-> TRUE,
     rec |-> [JobData(item, GetJobDetails(detail_input).value) EXCEPT
                !["Job Title"] = IF "title" \in item.absent THEN TitleNotFound
                                 ELSE @,
                !["Job Link"] = IF item.link \in Hrefs THEN @ ELSE LinkNotFound]]

\* process_job: the dict, or None when a statement raised
ProcessJob(item, detail_input) ==
    IF ProcessJobRaises(item) # "none" THEN [ok |-> FALSE, rec |-> <<>>]
    ELSE [ok |-> TRUE, rec |-> JobData(item, GetJobDetails(detail_input).value)]

\* if not job_link or job_link in seen_job_ids: continue
SkipsItem(item, seen) == item.link \notin Hrefs \/ item.link \in seen

\* ---- the results pages ----
\* The pages of n items: at most one item of a page, the k-th, lacks
\* sub-elements other than the link
ItemListsOf(n) ==
    {[i \in 1..n |-> [absent |-> IF i = k THEN a ELSE {}, link |-> ls[i]]] :
        ls \in [1..n -> LinkTags], k \in 1..n, a \in SUBSET SubElements}

ItemLists == {<<>>} \cup UNION {ItemListsOf(n) : n \in 1..MaxItems}

\* A page whose fetch gave None; or a page of which the first fetch shows
\* the first `shown` items and the direct browser approach, unless it
\* raises, all of them.  Each detail page is unreachable or empty.
ListingInputs ==
    [soup : {"null"}, items : {<<>>}, shown : {0}, direct : {"ok"},
     detail : {[soup |-> "null", raises |-> "none", doc |-> EmptyDoc]}]
    \cup
    {in \in [soup : {"page"}, items : ItemLists, shown : 0..MaxItems,
             direct : {"ok", "raise"},
             detail : [soup : {"null", "doc"}, raises : {"none"}, doc : {EmptyDoc}]] :
        in.shown <= Len(in.items)}

ListingInit ==
    /\ listing_in \in ListingInputs
    /\ max_jobs_per_page \in 1..MaxPerPage
    /\ listing_pc = "start"
    /\ job_list = <<>> /\ jobs_to_process = <<>> /\ listing_i = 1
    /\ seen_job_ids = {} /\ results = <<>> /\ results_src = <<>>

\* (variant: <= for <)
FewerThanExpected_OrAsMany(found, expected) == found <= expected

\* if len(job_list) < self.max_jobs_per_page
FewerThanExpected(found, expected) == found < expected

\* soup = self.get_soup(...); job_list = soup.find_all(...)
ListingFetch ==
    /\ listing_pc = "start"
    /\ IF listing_in.soup = "null"
       THEN /\ listing_pc' = "returned"
            /\ UNCHANGED job_list
       ELSE /\ job_list' = SubSeq(listing_in.items, 1, listing_in.shown)
            /\ listing_pc' = IF FewerThanExpected(listing_in.shown, max_jobs_per_page)
                             THEN "direct" ELSE "slice"
    /\ UNCHANGED <<listing_in, max_jobs_per_page, jobs_to_process, listing_i,
                   seen_job_ids, results, results_src>>

\* The direct browser approach
ListingDirect ==
    /\ listing_pc = "direct"
    /\ job_list' = IF listing_in.direct = "raise" THEN job_list
                   ELSE listing_in.items
    /\ listing_pc' = "slice"
    /\ UNCHANGED <<listing_in, max_jobs_per_page, jobs_to_process, listing_i,
                   seen_job_ids, results, results_src>>

\* jobs_to_process = job_list[:self.max_jobs_per_page]
ListingSlice ==
    /\ listing_pc = "slice"
    /\ jobs_to_process' = SubSeq(job_list, 1, Min(max_jobs_per_page, Len(job_list)))
    /\ listing_i' = 1
    /\ listing_pc' = "loop"
    /\ UNCHANGED <<listing_in, max_jobs_per_page, job_list, seen_job_ids,
                   results, results_src>>

\* One iteration of the loop over jobs_to_process
ListingItem ==
    /\ listing_pc = "loop"
    /\ listing_i <= Len(jobs_to_process)
    /\ LET item == jobs_to_process[listing_i]
           job_data == ProcessJob(item, listing_in.detail)
       IN IF SkipsItem(item, seen_job_ids)
          THEN UNCHANGED <<seen_job_ids, results, results_src>>
          ELSE /\ seen_job_ids' = seen_job_ids \cup {item.link}
               /\ IF job_data.ok
                  THEN /\ results' = Append(results, job_data.rec)
                       /\ results_src' = Append(results_src, listing_i)
                  ELSE UNCHANGED <<results, results_src>>
    /\ listing_i' = listing_i + 1
    /\ UNCHANGED <<listing_in, max_jobs_per_page, listing_pc, job_list,
                   jobs_to_process>>

\* return results
ListingReturn ==
    /\ listing_pc = "loop"
    /\ listing_i > Len(jobs_to_process)
    /\ listing_pc' = "returned"
    /\ UNCHANGED <<listing_in, max_jobs_per_page, job_list, jobs_to_process,
                   listing_i, seen_job_ids, results, results_src>>

ListingNext ==
    \/ ListingFetch /\ UNCHANGED notListingVars
    \/ ListingDirect /\ UNCHANGED notListingVars
    \/ ListingSlice /\ UNCHANGED notListingVars
    \/ ListingItem /\ UNCHANGED notListingVars
    \/ ListingReturn /\ UNCHANGED notListingVars

\* The state the listing specification starts in
ListingStart ==
    /\ ListingInit
    /\ CrawlIdle
    /\ FetchIdle
    /\ CleanIdle
    /\ DetailIdle
    /\ SalaryIdle
    /\ ExpiryIdle
    /\ TagIdle
    /\ CountsIdle
    /\ FilterIdle
    /\ PaginationIdle

SpecListing == ListingStart /\ [][ListingNext]_vars

\* C24: the direct browser approach is entered only from the first fetch,
\* and exactly when that fetch gave a page with fewer items than
\* max_jobs_per_page; whether it raises or not, and however many items it
\* finds, the next step takes the items to process; the task never goes
\* back to a fetch, so the approach runs at most once per page task.
C24_OneTimeEscalation ==
    [][/\ listing_pc = "start" =>
            (listing_pc' = "direct" <=>
                (listing_in.soup = "page" /\ listing_in.shown < max_jobs_per_page))
       /\ listing_pc # "start" => listing_pc' \notin {"start", "direct"}
       /\ listing_pc = "direct" =>
            /\ listing_pc' = "slice"
            /\ job_list' \in {job_list, listing_in.items}
       /\ listing_pc = "slice" =>
            /\ listing_pc' = "loop"
            /\ jobs_to_process' = SubSeq(job_list, 1, Min(max_jobs_per_page, Len(job_list)))
       /\ listing_pc' # "start"]_vars

\* C24 witness: the first fetch found no item, the direct approach found one,
\* still fewer than max_jobs_per_page, and the task processed it and returned
C24_Witness ==
    /\ listing_pc = "returned"
    /\ listing_in.soup = "page" /\ listing_in.direct = "ok"
    /\ listing_in.shown = 0 /\ Len(listing_in.items) = 1
    /\ max_jobs_per_page = 2
    /\ job_list = listing_in.items
    /\ Len(results) = 1

\* The field in which an absent sub-element shows, and the sentinel it is
\* to hold there
SentinelsOf(sub) ==
    CASE sub = "title" -> {<<"Job Title", TitleNotFound>>}
      [] sub = "company" -> {<<"Company", CompanyNotFound>>}
      [] sub = "location" -> {<<"Location", LocationNotFound>>}
      [] sub = "salary" -> {<<"Salary", SalaryNotFound>>}
      [] sub = "time" -> {<<"Date", UpdateTimeNotFound>>,
                          <<"Expire Date", ExpireDateNotFound>>}
      [] sub = "link" -> {<<"Job Link", LinkNotFound>>}

AbsentOf(item) ==
    item.absent \cup (IF item.link = "absent" THEN {"link"} ELSE {})

\* The item's link was already met on the page
RepeatsLink(i) ==
    /\ jobs_to_process[i].link \in Hrefs
    /\ \E j \in 1..(i - 1) : jobs_to_process[j].link = jobs_to_process[i].link

\* results holds a record for item i with every absent field at its sentinel
YieldsRecord(i) ==
    \E k \in 1..Len(results) :
        /\ results_src[k] = i
        /\ \A sub \in AbsentOf(jobs_to_process[i]) :
              \A fs \in SentinelsOf(sub) : results[k][fs[1]] = fs[2]

\* C10 (as stated): every item taken from the page, whichever of its
\* sub-elements are absent, yields a record whose absent fields hold their
\* sentinels; no item is dropped because a sub-element is absent.
C10_AlwaysYieldsRecord ==
    listing_pc = "returned" =>
        \A i \in 1..Len(jobs_to_process) :
            (jobs_to_process[i].link # "nohref" /\ ~RepeatsLink(i)) => YieldsRecord(i)

\* C10 witness: an item with a link and no title has been processed and the
\* page returned without a record for it
C10_Witness ==
    /\ listing_pc = "returned"
    /\ \E i \in 1..Len(jobs_to_process) :
          /\ jobs_to_process[i].absent = {"title"}
          /\ jobs_to_process[i].link \in Hrefs
          /\ ~RepeatsLink(i)
          /\ \A k \in 1..Len(results) : results_src[k] # i

====
